---- MODULE Spec2Model ----
(***************************************************************************)
(* Disk Analyser: the concurrent scanning engine (Rust backend, described  *)
(* by the README's simplified flows), the event batcher, the tree builders *)
(* and the front-end scan state (stores.ts, scanService.ts).               *)
(***************************************************************************)
EXTENDS Integers, Sequences, FiniteSets, TLC

(***************************************************************************)
(* Bounds of the model.                                                    *)
(***************************************************************************)
\* Permits of the semaphore (the program's default is 100).
ConcurrencyLimit == 2
\* Longest path (in components) a traversal task may be spawned for.
MaxDepth == 3

(***************************************************************************)
(* The scanned filesystem.  Paths are sequences of names below the root.   *)
(*   /        directory                                                    *)
(*   /f       file, 8 blocks                                               *)
(*   /d       directory                                                    *)
(*   /e       entry whose metadata cannot be read (permission denied)      *)
(*   /s       symbolic link to /d                                          *)
(*   /d/g     hard link to /f (same device and inode)                      *)
(*   /d/t     symbolic link to / (a cycle)                                 *)
(*   /m       directory, the mount point of a second device whose root    *)
(*            carries the inode number of /d (present when mounted)       *)
(***************************************************************************)
VARIABLE mounted  \* whether another filesystem (device 2) is mounted at /m

RootPath == << >>

Canon ==
  { << >>, <<"f">>, <<"d">>, <<"e">>, <<"s">>, <<"d", "g">>, <<"d", "t">> }
    \cup (IF mounted THEN { <<"m">> } ELSE {})

Names == {"f", "d", "e", "s", "g", "t", "m"}

Kind(c) ==
  CASE c \in { << >>, <<"d">>, <<"m">> } -> "dir"
    [] c \in { <<"s">>, <<"d", "t">> } -> "symlink"
    [] OTHER -> "file"

LinkTarget(c) == IF c = <<"s">> THEN <<"d">> ELSE << >>

Unreadable == { <<"e">> }

Device(c) == IF c = <<"m">> THEN 2 ELSE 1

Inode(c) ==
  CASE c = << >> -> 1
    [] c \in { <<"d">>, <<"m">> } -> 2
    [] c \in { <<"f">>, <<"d", "g">> } -> 3
    [] c = <<"e">> -> 4
    [] c = <<"s">> -> 5
    [] OTHER -> 6

Blocks(c) ==
  CASE Kind(c) = "dir" -> 1
    [] Kind(c) = "symlink" -> 0
    [] OTHER -> 8

BlockSize == 512

\* The directory a path names once a symbolic link in last position is followed.
Follow(c) == IF c \in Canon /\ Kind(c) = "symlink" THEN LinkTarget(c) ELSE c

\* The entry a path names: symbolic links in every component but the last are
\* followed, as the operating system resolves a path.
RECURSIVE Real(_)
Real(p) ==
  IF p = << >> THEN << >>
  ELSE Append(Follow(Real(SubSeq(p, 1, Len(p) - 1))), p[Len(p)])

ProperPrefixes(p) == { SubSeq(p, 1, n) : n \in 0 .. (Len(p) - 1) }

\* p passes through a symbolic link: one of its proper prefixes names one.
ThroughSymlink(p) ==
  \E a \in ProperPrefixes(p) : Real(a) \in Canon /\ Kind(Real(a)) = "symlink"

\* The sum of f over the set S.
RECURSIVE SumOver(_, _)
SumOver(S, f) ==
  IF S = {} THEN 0
  ELSE LET x == CHOOSE y \in S : TRUE IN f[x] + SumOver(S \ {x}, f)

(***************************************************************************)
(* Scan session state (backend).                                           *)
(***************************************************************************)
VARIABLES
  pc,             \* traversal task of each spawned path -> its position
  visits,         \* path -> number of metadata reads made for it
  permits,        \* permits of the semaphore currently held
  seen_inodes,    \* dedup set of the session
  files_scanned,  \* ProgressStats counter
  total_size,     \* ProgressStats accumulator
  current_path,   \* ProgressStats last observed path
  registry,       \* paths of the nodes written to the registry
  skipped,        \* entries recorded as skipped after a per-node error
  cancelled,      \* the cancellation signal
  rootValid,      \* whether the root path can be read and validated
  concurrency_limit, \* permits of the session's semaphore
  status,         \* "running", "completed", "cancelled" or "failed"
  lastEvent,      \* last streaming-scan-event emitted
  scanProgress    \* $scanProgress: the progress the front end last stored

scanVars ==
  << pc, visits, permits, seen_inodes, files_scanned, total_size, current_path,
     registry, skipped, cancelled, rootValid, concurrency_limit, mounted, status, lastEvent, scanProgress >>

NoEvent == [type |-> "none", files_scanned |-> 0, total_size |-> 0]

\* $scanProgress before the first progress event (null).
NoProgress == [files_scanned |-> 0, total_size |-> 0, set |-> FALSE]

\* The streaming-scan-event listener: updateProgress stores a progress payload.
StoredProgress(ev) ==
  [files_scanned |-> ev.files_scanned, total_size |-> ev.total_size, set |-> TRUE]

\* Variant: fs::metadata(&path), which follows a link in last position.
Lstat_Following(p) == Follow(Real(p))

\* fs::symlink_metadata(&path): the entry itself, a link in last position not followed.
Lstat(p) == Real(p)

\* metadata.is_symlink()
IsSymlink(p) == Kind(Lstat(p)) = "symlink"

\* metadata.is_dir()
IsDir(p) == Kind(Lstat(p)) = "dir"

\* let inode = metadata.ino(): the key of the dedup set.
InodeKey(p) == Inode(Lstat(p))

\* Variant: no dedup test, every path counts as new.
InsertedAsNew_Always(seen, key) == TRUE

\* seen_inodes.insert(inode) returns true when the key was absent.
InsertedAsNew(seen, key) == key \notin seen

\* let size = metadata.blocks() * 512
DiskUsage(p) == Blocks(Lstat(p)) * BlockSize

\* fs::read_dir(&path): the paths of the entries of the directory p names.
DirEntries(p) ==
  { Append(p, n) : n \in { m \in Names : Append(Follow(Real(p)), m) \in Canon } }

\* Variant: the total is overwritten instead of accumulated.
Accumulate_Overwrite(total, size) == size

\* progress.total_size += size
Accumulate(total, size) == total + size

\* Variant: a permit is handed out whatever the number held.
PermitFree_Always(held) == TRUE

\* semaphore.acquire() completes only while a permit is free.
PermitFree(held) == held < concurrency_limit

\* Variant: the cancellation signal is never consulted.
MayBeginWork_Always(cancel) == TRUE

\* The cancellation check made before a unit of traversal work starts.
MayBeginWork(cancel) == ~cancel

\* The metadata read of p fails (permission denied, I/O error).
MetadataFails(p) == Real(p) \in Unreadable

\* Variant: any failed read aborts the scan.
FatalError_Any(p) == TRUE

\* A failed read is fatal to the scan only when it is the root's.
FatalError(p) == p = RootPath

ScanInit ==
  /\ rootValid \in BOOLEAN
  /\ concurrency_limit \in 1 .. ConcurrencyLimit
  /\ pc = IF rootValid THEN (RootPath :> "spawned") ELSE << >>
  /\ visits = << >>
  /\ permits = 0
  /\ seen_inodes = {}
  /\ files_scanned = 0
  /\ total_size = 0
  /\ current_path = << "none" >>
  /\ registry = {}
  /\ skipped = {}
  /\ cancelled = FALSE
  /\ status = IF rootValid THEN "running" ELSE "failed"
  /\ lastEvent = NoEvent
  /\ scanProgress = NoProgress

Running == status = "running"

\* 1. Acquire semaphore permit; a task that finds the scan cancelled starts nothing.
AcquirePermit(p) ==
  /\ Running
  /\ pc[p] = "spawned"
  /\ IF MayBeginWork(cancelled)
       THEN /\ PermitFree(permits)
            /\ permits' = permits + 1
            /\ pc' = [pc EXCEPT ![p] = "stat"]
       ELSE /\ pc' = [pc EXCEPT ![p] = "done"]
            /\ UNCHANGED permits
  /\ UNCHANGED << visits, seen_inodes, files_scanned, total_size, current_path,
                  registry, skipped, cancelled, rootValid, concurrency_limit, mounted, status, lastEvent,
                  scanProgress >>

\* 2. Read metadata (in-flight I/O, never interrupted); a failure skips the entry.
ReadMetadata(p) ==
  /\ Running
  /\ pc[p] = "stat"
  /\ visits' = [q \in DOMAIN visits \cup {p} |->
                  (IF q \in DOMAIN visits THEN visits[q] ELSE 0) + (IF q = p THEN 1 ELSE 0)]
  /\ IF MetadataFails(p)
       THEN /\ permits' = permits - 1
            /\ pc' = [pc EXCEPT ![p] = "done"]
            /\ IF FatalError(p)
                 THEN status' = "failed" /\ UNCHANGED skipped
                 ELSE skipped' = skipped \cup {p} /\ UNCHANGED status
       ELSE /\ pc' = [pc EXCEPT ![p] = "meta"]
            /\ UNCHANGED << skipped, permits, status >>
  /\ UNCHANGED << seen_inodes, files_scanned, total_size, current_path,
                  registry, cancelled, rootValid, concurrency_limit, mounted, lastEvent, scanProgress >>

\* 3. Skip symlinks; 4. track inodes: insert-if-absent, a loser returns.
\* Returning drops the permit.
SkipOrTrack(p) ==
  /\ Running
  /\ pc[p] = "meta"
  /\ IF IsSymlink(p)
       THEN /\ permits' = permits - 1
            /\ pc' = [pc EXCEPT ![p] = "done"]
            /\ UNCHANGED seen_inodes
       ELSE IF InsertedAsNew(seen_inodes, InodeKey(p))
         THEN /\ seen_inodes' = seen_inodes \cup {InodeKey(p)}
              /\ pc' = [pc EXCEPT ![p] = "tracked"]
              /\ UNCHANGED permits
         ELSE /\ permits' = permits - 1
              /\ pc' = [pc EXCEPT ![p] = "done"]
              /\ UNCHANGED seen_inodes
  /\ UNCHANGED << visits, files_scanned, total_size, current_path,
                  registry, skipped, cancelled, rootValid, concurrency_limit, mounted, status, lastEvent,
                  scanProgress >>

\* Variant: a result is written whatever the cancellation signal says.
WriteDiscarded_Never(cancel) == FALSE

\* The result of a read that ends after cancellation is discarded at the
\* registry-write step.
WriteDiscarded(cancel) == cancel

\* 5. Calculate disk usage; 6. update progress stats and write the node to the
\* registry.  A result that arrives after cancellation is discarded here.
UpdateProgress(p) ==
  /\ Running
  /\ pc[p] = "tracked"
  /\ pc' = [pc EXCEPT ![p] = IF IsDir(p) THEN "readdir" ELSE "release"]
  /\ IF ~WriteDiscarded(cancelled)
       THEN /\ files_scanned' = files_scanned + 1
            /\ total_size' = Accumulate(total_size, DiskUsage(p))
            /\ current_path' = p
            /\ registry' = registry \cup {p}
       ELSE UNCHANGED << files_scanned, total_size, current_path, registry >>
  /\ UNCHANGED << visits, permits, seen_inodes, skipped, cancelled, rootValid, concurrency_limit, mounted,
                  status, lastEvent, scanProgress >>

\* 7. If directory, spawn a task for every entry (none once cancelled).
SpawnChildren(p) ==
  /\ Running
  /\ pc[p] = "readdir"
  /\ LET kids == IF MayBeginWork(cancelled)
                   THEN { k \in DirEntries(p) : Len(k) <= MaxDepth }
                   ELSE {}
     IN pc' = [q \in DOMAIN pc \cup kids |->
                 IF q = p THEN "release"
                 ELSE IF q \in kids THEN "spawned" ELSE pc[q]]
  /\ UNCHANGED << visits, permits, seen_inodes, files_scanned, total_size,
                  current_path, registry, skipped, cancelled, rootValid, concurrency_limit, mounted, status,
                  lastEvent, scanProgress >>

\* Variant: the worker awaits the tasks it spawned before it drops its permit.
AwaitedBeforeRelease_Children(p) ==
  { k \in DOMAIN pc : Len(k) = Len(p) + 1 /\ SubSeq(k, 1, Len(p)) = p }

\* The tasks a worker awaits between spawning its children and dropping its
\* permit: none, the children are spawned and left to run.
AwaitedBeforeRelease(p) == {}

\* 8. Release permit.
ReleasePermit(p) ==
  /\ Running
  /\ pc[p] = "release"
  /\ \A k \in AwaitedBeforeRelease(p) : pc[k] = "done"
  /\ permits' = permits - 1
  /\ pc' = [pc EXCEPT ![p] = "done"]
  /\ UNCHANGED << visits, seen_inodes, files_scanned, total_size, current_path,
                  registry, skipped, cancelled, rootValid, concurrency_limit, mounted, status, lastEvent,
                  scanProgress >>

\* progress_task: every 500 ms, emit a snapshot of the stats.
ProgressTick ==
  /\ Running
  /\ lastEvent' = [type |-> "progress", files_scanned |-> files_scanned,
                   total_size |-> total_size]
  /\ scanProgress' = StoredProgress(lastEvent')
  /\ UNCHANGED << pc, visits, permits, seen_inodes, files_scanned, total_size,
                  current_path, registry, skipped, cancelled, rootValid, concurrency_limit, mounted, status >>

\* cancel_scan(): set the cancellation signal.
CancelRequest ==
  /\ Running
  /\ ~cancelled
  /\ cancelled' = TRUE
  /\ UNCHANGED << pc, visits, permits, seen_inodes, files_scanned, total_size,
                  current_path, registry, skipped, rootValid, concurrency_limit, mounted, status, lastEvent,
                  scanProgress >>

\* Some traversal task takes its next step.
TaskStep ==
  \E p \in DOMAIN pc :
    \/ AcquirePermit(p) \/ ReadMetadata(p) \/ SkipOrTrack(p)
    \/ UpdateProgress(p) \/ SpawnChildren(p) \/ ReleasePermit(p)

AllTasksDone == \A p \in DOMAIN pc : pc[p] = "done"

\* Every task has ended and the scan was not cancelled: the terminal complete event.
CompleteScan ==
  /\ Running
  /\ AllTasksDone
  /\ ~cancelled
  /\ status' = "completed"
  /\ lastEvent' = [type |-> "complete", files_scanned |-> files_scanned,
                   total_size |-> total_size]
  /\ UNCHANGED << pc, visits, permits, seen_inodes, files_scanned, total_size,
                  current_path, registry, skipped, cancelled, rootValid, concurrency_limit, mounted,
                  scanProgress >>

\* Every task has ended after a cancellation: the terminal status is "cancelled".
FinishCancelled ==
  /\ Running
  /\ AllTasksDone
  /\ cancelled
  /\ status' = "cancelled"
  /\ UNCHANGED << pc, visits, permits, seen_inodes, files_scanned, total_size,
                  current_path, registry, skipped, cancelled, rootValid, concurrency_limit, mounted, lastEvent,
                  scanProgress >>

(***************************************************************************)
(* The registry and the tree builders.  The registry maps a path to its    *)
(* node and a parent to the paths of its children; the front end fills its *)
(* copy from node_discovered signals (addNodeIncremental).                 *)
(***************************************************************************)
\* Signals delivered in one run of the tree model.
MaxSignals == 6
\* Deepest cutoff a depth-bounded build is asked for.
MaxTreeDepth == 2

\* The nodes a scan can discover: directory r holding directory a and file b,
\* a holding file x.
TreePaths == {"r", "a", "b", "x"}

ParentOf(path) ==
  CASE path = "r" -> "null"
    [] path \in {"a", "b"} -> "r"
    [] OTHER -> "a"

IsDirectoryPath(path) == path \in {"r", "a"}

\* Sizes a signal may carry for a path: a directory reports its own blocks.
SignalSizes(path) ==
  CASE IsDirectoryPath(path) -> {4}
    [] path = "b" -> {3}
    [] OTHER -> {1, 2}

VARIABLES
  nodeRegistry,    \* path -> FileNode
  childrenMap,     \* parent path -> sequence of child paths
  rootPath,        \* first node without parent, "null" before
  intervalElapsed, \* Date.now() - lastUpdateTime >= UPDATE_INTERVAL_MS
  pendingUpdate,   \* a tree update is scheduled
  frames,          \* animation-frame callbacks queued
  scanResult,      \* $scanResult: << >> (null) or << tree >>
  lazyTree,        \* tree the backend delivered: << >> or << tree >>
  lazyDepth,       \* depth cutoff lazyTree was built with
  lazyMemo,        \* size_cache of the last build, and the computations it made
  signals          \* node_discovered signals delivered so far

treeVars ==
  << nodeRegistry, childrenMap, rootPath, intervalElapsed, pendingUpdate, frames,
     scanResult, lazyTree, lazyDepth, lazyMemo, signals >>

\* The value of childrenMap.get(path) || []
ChildPaths(path) == IF path \in DOMAIN childrenMap THEN childrenMap[path] ELSE << >>

SeqSum(sizes) == SumOver(DOMAIN sizes, sizes)

\* Insert tree t into the size-descending sequence ts, after its equals (stable).
RECURSIVE InsertBySize(_, _)
InsertBySize(t, ts) ==
  IF ts = << >> THEN << t >>
  ELSE IF Head(ts).size >= t.size THEN << Head(ts) >> \o InsertBySize(t, Tail(ts))
  ELSE << t >> \o ts

\* children.sort((a, b) => b.size - a.size)
RECURSIVE SortBySizeDesc(_)
SortBySizeDesc(ts) ==
  IF ts = << >> THEN << >>
  ELSE InsertBySize(ts[Len(ts)], SortBySizeDesc(SubSeq(ts, 1, Len(ts) - 1)))

\* Concatenation of a sequence of sequences.
RECURSIVE Flatten(_)
Flatten(ss) == IF ss = << >> THEN << >> ELSE Head(ss) \o Flatten(Tail(ss))

\* Variant: a directory keeps the size its own node carries.
DirectoryTotal_OwnSize(node, children) == node.size

\* totalSize += childTree.size over the children built
DirectoryTotal(node, children) == SeqSum([i \in DOMAIN children |-> children[i].size])

\* buildTreeFromRegistry(path): << >> for null, << tree >> otherwise.
RECURSIVE buildTreeFromRegistry(_)
buildTreeFromRegistry(path) ==
  IF path \notin DOMAIN nodeRegistry THEN << >>
  ELSE LET node == nodeRegistry[path] IN
    IF ~node.is_directory THEN << node >>
    ELSE LET childPaths == ChildPaths(path)
             children == Flatten([i \in DOMAIN childPaths |->
                                    buildTreeFromRegistry(childPaths[i])])
         IN << [node EXCEPT !.size = DirectoryTotal(node, children),
                            !.children = SortBySizeDesc(children)] >>

\* Variant: only the sizes the immediate children carry themselves are summed.
LazySize_Shallow(path) ==
  IF path \notin DOMAIN nodeRegistry THEN 0
  ELSE IF ~nodeRegistry[path].is_directory THEN nodeRegistry[path].size
  ELSE LET childPaths == IF path \in DOMAIN childrenMap THEN childrenMap[path] ELSE << >>
       IN SumOver(DOMAIN childPaths,
                  [i \in DOMAIN childPaths |->
                     IF childPaths[i] \in DOMAIN nodeRegistry
                       THEN nodeRegistry[childPaths[i]].size ELSE 0])

\* The size_cache of a build and the number of times each path's size was
\* computed; both empty when a build starts.
EmptyMemo == [size_cache |-> << >>, computed |-> << >>]

\* Variant: the cache is never consulted.
CacheHit_Never(path, memo) == FALSE

\* size_cache.get(path) is Some
CacheHit(path, memo) == path \in DOMAIN memo.size_cache

\* A size was computed for path: it is counted and inserted into the cache.
StoreSize(path, size, memo) ==
  [size_cache |-> [q \in DOMAIN memo.size_cache \cup {path} |->
                     IF q = path THEN size ELSE memo.size_cache[q]],
   computed   |-> [q \in DOMAIN memo.computed \cup {path} |->
                     (IF q \in DOMAIN memo.computed THEN memo.computed[q] ELSE 0)
                       + (IF q = path THEN 1 ELSE 0)]]

RECURSIVE calculate_dir_size_lazy(_, _)
RECURSIVE SizeEach(_, _)

\* The cached size when there is one, else calculate_dir_size_lazy.
SizedThroughCache(path, memo) ==
  IF CacheHit(path, memo) THEN memo ELSE calculate_dir_size_lazy(path, memo)

\* The sizes of the paths of a child list, one after the other.
SizeEach(paths, memo) ==
  IF paths = << >> THEN memo
  ELSE SizeEach(Tail(paths), SizedThroughCache(Head(paths), memo))

\* calculate_dir_size_lazy: a file's size is its own, a directory's the sum of
\* its children's, bottom-up over the whole registry; the result is cached.
calculate_dir_size_lazy(path, memo) ==
  IF path \notin DOMAIN nodeRegistry THEN StoreSize(path, 0, memo)
  ELSE IF ~nodeRegistry[path].is_directory
    THEN StoreSize(path, nodeRegistry[path].size, memo)
  ELSE LET childPaths == ChildPaths(path)
           below == SizeEach(childPaths, memo)
       IN StoreSize(path,
                    SeqSum([i \in DOMAIN childPaths |-> below.size_cache[childPaths[i]]]),
                    below)

\* The size build_tree_recursive_lazy gives the node at path.
LazySize(path) == SizedThroughCache(path, EmptyMemo).size_cache[path]

RECURSIVE LazyBuildMemo(_, _, _, _)
RECURSIVE LazyBuildEach(_, _, _, _)

\* The cache as build_tree_recursive_lazy leaves it: the node's size is read or
\* calculated, then the children within the depth limit are built.
LazyBuildMemo(path, current_depth, max_depth, memo) ==
  IF current_depth >= max_depth \/ path \notin DOMAIN nodeRegistry THEN memo
  ELSE LazyBuildEach(ChildPaths(path), current_depth + 1, max_depth,
                     SizedThroughCache(path, memo))

LazyBuildEach(paths, current_depth, max_depth, memo) ==
  IF paths = << >> THEN memo
  ELSE LazyBuildEach(Tail(paths), current_depth, max_depth,
                     LazyBuildMemo(Head(paths), current_depth, max_depth, memo))

\* Variant: a node's size is taken from the children the build delivers.
RECURSIVE build_tree_recursive_lazy_Delivered(_, _, _)
build_tree_recursive_lazy_Delivered(path, current_depth, max_depth) ==
  IF current_depth >= max_depth \/ path \notin DOMAIN nodeRegistry THEN << >>
  ELSE LET node == nodeRegistry[path]
           childPaths == IF path \in DOMAIN childrenMap THEN childrenMap[path] ELSE << >>
           children == Flatten([i \in DOMAIN childPaths |->
                         build_tree_recursive_lazy_Delivered(childPaths[i],
                                                             current_depth + 1, max_depth)])
       IN << [node EXCEPT
                !.size = IF node.is_directory
                           THEN SumOver(DOMAIN children,
                                        [i \in DOMAIN children |-> children[i].size])
                           ELSE node.size,
                !.children = children] >>

\* build_tree_recursive_lazy(registry, parent_to_children, size_cache, path,
\* current_depth, max_depth): None at the cutoff, else the node with its size
\* and the children within the depth limit.
RECURSIVE build_tree_recursive_lazy(_, _, _)
build_tree_recursive_lazy(path, current_depth, max_depth) ==
  IF current_depth >= max_depth \/ path \notin DOMAIN nodeRegistry THEN << >>
  ELSE LET node == nodeRegistry[path]
           childPaths == ChildPaths(path)
           children == Flatten([i \in DOMAIN childPaths |->
                         build_tree_recursive_lazy(childPaths[i], current_depth + 1,
                                                   max_depth)])
       IN << [node EXCEPT !.size = LazySize(path), !.children = children] >>

TreeInit ==
  /\ nodeRegistry = << >>
  /\ childrenMap = << >>
  /\ rootPath = "null"
  /\ intervalElapsed = TRUE
  /\ pendingUpdate = FALSE
  /\ frames = 0
  /\ scanResult = << >>
  /\ lazyTree = << >>
  /\ lazyDepth = 0
  /\ lazyMemo = EmptyMemo
  /\ signals = 0

\* scheduleTreeUpdate(): at most one update pending; the callback is queued.
scheduleTreeUpdate(root) ==
  IF pendingUpdate \/ root = "null"
    THEN UNCHANGED << pendingUpdate, frames >>
    ELSE pendingUpdate' = TRUE /\ frames' = frames + 1

\* Variant: a child is listed only under a parent that is already registered.
TracksChild_KnownParent(parentPath) ==
  parentPath # "null" /\ parentPath \in DOMAIN nodeRegistry

\* if (parentPath): the child is listed under its parent, registered or not.
TracksChild(parentPath) == parentPath # "null"

\* addNodeIncremental(path, parentPath, name, size, isDirectory, fileType)
addNodeIncremental(path, parentPath, size, isDirectory) ==
  /\ signals < MaxSignals
  /\ lazyTree = << >>
  /\ signals' = signals + 1
  /\ LET node == [path |-> path, size |-> size, is_directory |-> isDirectory,
                  children |-> << >>]
         root == IF parentPath = "null" /\ rootPath = "null" THEN path ELSE rootPath
     IN /\ nodeRegistry' = [q \in DOMAIN nodeRegistry \cup {path} |->
                              IF q = path THEN node ELSE nodeRegistry[q]]
        /\ rootPath' = root
        /\ childrenMap' =
             IF ~TracksChild(parentPath) THEN childrenMap
             ELSE [q \in DOMAIN childrenMap \cup {parentPath} |->
                     IF q = parentPath THEN Append(ChildPaths(parentPath), path)
                     ELSE childrenMap[q]]
        /\ IF intervalElapsed /\ root # "null" /\ ~pendingUpdate
             THEN intervalElapsed' = FALSE /\ scheduleTreeUpdate(root)
             ELSE UNCHANGED << intervalElapsed, pendingUpdate, frames >>
  /\ UNCHANGED << scanResult, lazyTree, lazyDepth, lazyMemo >>

\* The requestAnimationFrame callback of scheduleTreeUpdate.
AnimationFrame ==
  /\ frames > 0
  /\ frames' = frames - 1
  /\ pendingUpdate' = FALSE
  /\ LET tree == IF rootPath = "null" THEN << >> ELSE buildTreeFromRegistry(rootPath)
     IN scanResult' = IF tree # << >> THEN tree ELSE scanResult
  /\ UNCHANGED << nodeRegistry, childrenMap, rootPath, intervalElapsed, lazyTree,
                  lazyDepth, lazyMemo, signals >>

\* clearIncrementalState()
clearIncrementalState ==
  /\ nodeRegistry # << >>
  /\ nodeRegistry' = << >>
  /\ childrenMap' = << >>
  /\ rootPath' = "null"
  /\ intervalElapsed' = TRUE
  /\ pendingUpdate' = FALSE
  /\ UNCHANGED << frames, scanResult, lazyTree, lazyDepth, lazyMemo, signals >>

\* Time passes: UPDATE_INTERVAL_MS have elapsed since lastUpdateTime.
IntervalPasses ==
  /\ ~intervalElapsed
  /\ intervalElapsed' = TRUE
  /\ UNCHANGED << nodeRegistry, childrenMap, rootPath, pendingUpdate, frames,
                  scanResult, lazyTree, lazyDepth, lazyMemo, signals >>

\* A registry of the backend lists a path once among its parent's children:
\* every path is inspected, and inserted, at most once.
ListedOnce ==
  \A q \in DOMAIN childrenMap :
    \A i, j \in DOMAIN childrenMap[q] : childrenMap[q][i] = childrenMap[q][j] => i = j

\* The backend builds the depth-bounded output tree from the registry.
DeliverLazyTree(max_depth) ==
  /\ rootPath # "null"
  /\ ListedOnce
  /\ lazyTree' = build_tree_recursive_lazy(rootPath, 0, max_depth)
  /\ lazyDepth' = max_depth
  /\ lazyMemo' = LazyBuildMemo(rootPath, 0, max_depth, EmptyMemo)
  /\ UNCHANGED << nodeRegistry, childrenMap, rootPath, intervalElapsed,
                  pendingUpdate, frames, scanResult, signals >>

(***************************************************************************)
(* The scenario of the specification: a directory with three files of 100, *)
(* 200 and 300 bytes and one subdirectory holding a 50-byte file.  Each    *)
(* entry is discovered once, a directory before its entries.               *)
(***************************************************************************)
ScenarioPaths == {"root", "root/f1", "root/f2", "root/f3", "root/sub", "root/sub/g"}

ScenarioParent(path) ==
  CASE path = "root" -> "null"
    [] path = "root/sub/g" -> "root/sub"
    [] OTHER -> "root"

ScenarioIsDirectory(path) == path \in {"root", "root/sub"}

\* let size = metadata.blocks() * 512, of files and directories alike: the files
\* have the sizes of the scenario, a directory one block of its own.
ScenarioSize(path) ==
  CASE path = "root/f1" -> 100
    [] path = "root/f2" -> 200
    [] path = "root/f3" -> 300
    [] path = "root/sub/g" -> 50
    [] OTHER -> 1 * BlockSize

\* scan_root_with_updates steps 5 to 7 for one entry: its size is added to the
\* progress stats and its node_discovered signal reaches addNodeIncremental.
ScenarioDiscover(path) ==
  /\ path \notin DOMAIN nodeRegistry
  /\ ScenarioParent(path) # "null" => ScenarioParent(path) \in DOMAIN nodeRegistry
  /\ files_scanned' = files_scanned + 1
  /\ total_size' = Accumulate(total_size, ScenarioSize(path))
  /\ addNodeIncremental(path, ScenarioParent(path), ScenarioSize(path),
                        ScenarioIsDirectory(path))
  /\ UNCHANGED << pc, visits, permits, seen_inodes, current_path, registry, skipped,
                  cancelled, rootValid, concurrency_limit, mounted, status, lastEvent, scanProgress >>

(***************************************************************************)
(* The event batcher (event_task): one loop iteration is a select! between *)
(* rx.recv() and a sleep(50ms) created anew by that iteration.             *)
(***************************************************************************)
\* Milliseconds one step of the clock advances.
TickMs == 10

\* Events the scanner may have queued in the channel, in the model.
MaxQueued == 3

\* batch.len() >= 100
BatchLimit == 100

\* elapsed >= 50ms, sleep(50ms)
FlushIntervalMs == 50

\* Signals of a stream that ends, in the model.
MaxEvents == 3

\* toSend of a stream that does not end.
Endless == 0 - 1

VARIABLES
  batchLen,   \* batch.len()
  batchAge,   \* ms since the first item of the batch arrived (0 when empty)
  sleepLeft,  \* ms until the sleep of the current loop iteration fires
  lastBatch,  \* size of the batch emitted last (0 before the first)
  channel,    \* events sent by the scanner and not yet received
  batch,      \* the batch: each event named by the number of events received after it
  emittedBatch, \* the batch emitted last, as it was emitted
  unemitted,  \* events received since the last emit_batch()
  toSend      \* events the scanner has yet to send, Endless when it never stops

batchVars ==
  << batchLen, batchAge, sleepLeft, lastBatch, channel, batch, emittedBatch,
     unemitted, toSend >>

BatchInit ==
  /\ batchLen = 0
  /\ batchAge = 0
  /\ sleepLeft = FlushIntervalMs
  /\ lastBatch = 0
  /\ channel = 0
  /\ batch = << >>
  /\ emittedBatch = << >>
  /\ unemitted = 0
  /\ toSend = Endless

\* if batch.len() >= 100 || elapsed >= 50ms
FlushDue(len, elapsed) == len >= BatchLimit \/ elapsed >= FlushIntervalMs

\* One more event has been received: every event of the batch is one older.
Aged(events) == [i \in DOMAIN events |-> events[i] + 1]

\* Variant: the event is put in front of the batch.
Pushed_Front(events, event) == << event >> \o events

\* batch.push(event)
Pushed(events, event) == Append(events, event)

\* event = rx.recv() => { batch.push(event); if ... { emit_batch(); } }
\* The loop then starts its next iteration, with a new sleep(50ms).
ReceiveEvent ==
  /\ channel > 0
  /\ channel' = channel - 1
  /\ sleepLeft' = FlushIntervalMs
  /\ UNCHANGED toSend
  /\ IF FlushDue(batchLen + 1, batchAge)
       THEN /\ lastBatch' = batchLen + 1
            /\ emittedBatch' = Pushed(Aged(batch), 0)
            /\ batch' = << >>
            /\ unemitted' = 0
            /\ batchLen' = 0
            /\ batchAge' = 0
       ELSE /\ batchLen' = batchLen + 1
            /\ batch' = Pushed(Aged(batch), 0)
            /\ unemitted' = unemitted + 1
            /\ UNCHANGED << batchAge, lastBatch, emittedBatch >>

\* _ = sleep(50ms) => { if !batch.is_empty() { emit_batch(); } }
SleepFires ==
  /\ sleepLeft = 0
  /\ UNCHANGED << channel, toSend >>
  /\ sleepLeft' = FlushIntervalMs
  /\ IF batchLen > 0
       THEN /\ lastBatch' = batchLen
            /\ emittedBatch' = batch
            /\ batch' = << >>
            /\ unemitted' = 0
            /\ batchLen' = 0
            /\ batchAge' = 0
       ELSE UNCHANGED << batchLen, batchAge, lastBatch, batch, emittedBatch, unemitted >>

\* event_tx.send(NodeUpdate {..}) of a scanner task: the channel is unbounded,
\* the send returns at once whatever the channel holds.
SendEvent ==
  /\ channel < MaxQueued
  /\ toSend # 0
  /\ toSend' = IF toSend = Endless THEN Endless ELSE toSend - 1
  /\ channel' = channel + 1
  /\ UNCHANGED << batchLen, batchAge, sleepLeft, lastBatch, batch, emittedBatch,
                  unemitted >>

\* Time passes while the task waits in select! with nothing to receive; a sleep
\* that is due fires first.
BatchClock ==
  /\ channel = 0
  /\ UNCHANGED << channel, toSend >>
  /\ sleepLeft > 0
  /\ LET passed == IF sleepLeft > TickMs THEN TickMs ELSE sleepLeft
     IN /\ sleepLeft' = sleepLeft - passed
        /\ batchAge' = IF batchLen > 0 THEN batchAge + passed ELSE 0
  /\ UNCHANGED << batchLen, lastBatch, batch, emittedBatch, unemitted >>

(***************************************************************************)
(* The front-end scan state: the atoms of stores.ts, the asynchronous      *)
(* scanDirectoryStreaming calls of scanService.ts and the backend commands *)
(* they await.                                                             *)
(***************************************************************************)
\* scanDirectoryStreaming calls made in one run.
MaxCalls == 2

\* Locations offered by the sidebar.
UIPaths == {"/home", "/System"}

\* isSystemPath of scanDirectoryStreaming: '/', '/System...', '/Library...', ...
IsSystemPath(path) == path \in {"/", "/System"}

InvalidPathMessage == "The selected path is not valid or accessible."

\* Messages the scan command can reject with.
ErrorMessages == {"Permission denied", "Resource busy", "Scan cancelled"}

\* errorMessage.toLowerCase()
LowerCase(msg) ==
  CASE msg = "Permission denied" -> "permission denied"
    [] msg = "Resource busy" -> "resource busy"
    [] msg = "Scan cancelled" -> "scan cancelled"
    [] OTHER -> msg

\* lower.includes('permission') || lower.includes('access denied')
IsPermissionError(msg) == LowerCase(msg) \in {"permission denied", "access denied"}

\* resumablePatterns.some(pattern => lowerMessage.includes(pattern))
isResumableError(msg) ==
  LowerCase(msg) \in
    {"permission denied", "access denied", "temporarily unavailable", "resource busy"}

\* The FileNode the scan command resolves with: the tree of path, whole or
\* cut short by a cancellation.
ResultTree(path, partial) == [path |-> path, partial |-> partial]

VARIABLES
  scanTarget,            \* $scanTarget: "null" or a path
  isScanning,            \* $isScanning
  currentView,           \* $currentView: << >> (null) or << tree >>
  scanError,             \* $scanError: "null" or a message
  canResumeScan,         \* $canResumeScan
  showPermissionDialog,  \* $showPermissionDialog
  permissionDialogPath,  \* $permissionDialogPath
  scanCache,             \* $scanCache: path -> << >> or << tree >>
  lastToast,             \* title of the toast last appended to $toasts
  isMac,                 \* navigator.platform names a Mac
  calls,                 \* the scanDirectoryStreaming calls, in call order
  pendingCancel          \* cancelScan awaiting cancel_scan_command: "none", "ok", "failed"

uiVars ==
  << scanTarget, isScanning, currentView, scanError, canResumeScan,
     showPermissionDialog, permissionDialogPath, scanCache, lastToast, isMac,
     calls, pendingCancel >>

\* The backend session without the front end's $scanProgress.
scanSessionVars ==
  << pc, visits, permits, seen_inodes, files_scanned, total_size, current_path,
     registry, skipped, cancelled, rootValid, concurrency_limit, mounted, status, lastEvent >>

\* The incremental registry without $scanResult.
treeLocalVars ==
  << nodeRegistry, childrenMap, rootPath, intervalElapsed, pendingUpdate, frames,
     lazyTree, lazyDepth, lazyMemo, signals >>

\* Initial values of the atoms.
StoresInit ==
  /\ scanTarget = "null"
  /\ isScanning = FALSE
  /\ currentView = << >>
  /\ scanError = "null"
  /\ canResumeScan = FALSE
  /\ showPermissionDialog = FALSE
  /\ permissionDialogPath = ""
  /\ scanCache = [p \in UIPaths |-> << >>]
  /\ lastToast = "none"
  /\ calls = << >>
  /\ pendingCancel = "none"

\* export function startScan(path)
startScan(path) ==
  /\ scanTarget' = path
  /\ isScanning' = TRUE
  /\ scanProgress' = NoProgress
  /\ scanResult' = << >>
  /\ currentView' = << >>
  /\ scanError' = "null"
  /\ canResumeScan' = FALSE

\* export function completeScan(result)
completeScan(result) ==
  /\ scanResult' = << result >>
  /\ currentView' = << result >>
  /\ isScanning' = FALSE
  /\ scanCache' = IF scanTarget # "null"
                    THEN [scanCache EXCEPT ![scanTarget] = << result >>]
                    ELSE scanCache

\* Variant: the error is stored and the scanning state is left as it is.
handleScanError_KeepScanning(error) ==
  /\ UNCHANGED isScanning
  /\ scanError' = error
  /\ lastToast' = "Scan Failed"

\* export function handleScanError(error)
handleScanError(error) ==
  /\ isScanning' = FALSE
  /\ scanError' = error
  /\ lastToast' = "Scan Failed"

\* A call of scanDirectoryStreaming(path) begins: it awaits validate_path_command.
scanDirectoryStreaming(path) ==
  /\ Len(calls) < MaxCalls
  /\ calls' = Append(calls, [path |-> path, at |-> "validate", valid |-> "unknown",
                             invoked |-> FALSE, cancelled |-> FALSE,
                             reported |-> "none"])

\* SidebarNavigator: handleLocationClick(location)
handleLocationClick(path) ==
  /\ ~isScanning
  /\ startScan(path)
  /\ scanDirectoryStreaming(path)
  /\ UNCHANGED << showPermissionDialog, permissionDialogPath, scanCache,
                  lastToast, isMac, pendingCancel >>

\* MillerColumns: handleRescan()
handleRescan ==
  /\ scanTarget # "null" /\ ~isScanning
  /\ startScan(scanTarget)
  /\ scanDirectoryStreaming(scanTarget)
  /\ UNCHANGED << showPermissionDialog, permissionDialogPath, scanCache,
                  lastToast, isMac, pendingCancel >>

\* App: the Ctrl/Cmd+R shortcut calls scanDirectoryStreaming(scanTarget).
RefreshShortcut ==
  /\ scanTarget # "null"
  /\ scanDirectoryStreaming(scanTarget)
  /\ UNCHANGED << scanTarget, isScanning, currentView, scanError, canResumeScan,
                  showPermissionDialog, permissionDialogPath, scanCache,
                  lastToast, isMac, pendingCancel, scanProgress, scanResult >>

\* ProgressIndicator: handleResume() = resumeScan(); scanDirectoryStreaming(scanTarget).
\* The button is rendered while scanError && canResumeScan.
handleResume ==
  /\ scanError # "null" /\ canResumeScan
  /\ IF scanTarget # "null" /\ canResumeScan
       THEN startScan(scanTarget)
       ELSE UNCHANGED << scanTarget, isScanning, scanProgress, scanResult,
                         currentView, scanError, canResumeScan >>
  /\ scanTarget # "null"
  /\ scanDirectoryStreaming(scanTarget)
  /\ UNCHANGED << showPermissionDialog, permissionDialogPath, scanCache,
                  lastToast, isMac, pendingCancel >>

\* Variant: the validation result is not looked at.
PathRejected_Never(isValid) == FALSE

\* if (!isValid)
PathRejected(isValid) == ~isValid

\* validate_path_command returns isValid to call i.
ValidateReturns(i, isValid) ==
  /\ calls[i].at = "validate"
  /\ IF PathRejected(isValid)
       THEN /\ handleScanError(InvalidPathMessage)
            /\ calls' = [calls EXCEPT ![i].at = "returned", ![i].valid = "no",
                                      ![i].reported = "failed"]
       ELSE /\ calls' = [calls EXCEPT
                 ![i].at = IF isMac /\ IsSystemPath(calls[i].path)
                             THEN "permissions" ELSE "listen",
                 ![i].valid = IF isValid THEN "yes" ELSE "no"]
            /\ UNCHANGED << isScanning, scanError, lastToast >>
  /\ UNCHANGED << scanTarget, currentView, canResumeScan, showPermissionDialog,
                  permissionDialogPath, scanCache, isMac, pendingCancel,
                  scanProgress, scanResult >>

\* checkPathPermissions(path) returns hasPermission to call i.
PermissionCheckReturns(i, hasPermission) ==
  /\ calls[i].at = "permissions"
  /\ IF ~hasPermission
       THEN /\ permissionDialogPath' = calls[i].path
            /\ showPermissionDialog' = TRUE
            /\ calls' = [calls EXCEPT ![i].at = "returned", ![i].reported = "dialog"]
       ELSE /\ calls' = [calls EXCEPT ![i].at = "listen"]
            /\ UNCHANGED << permissionDialogPath, showPermissionDialog >>
  /\ UNCHANGED << scanTarget, isScanning, currentView, scanError, canResumeScan,
                  scanCache, lastToast, isMac, pendingCancel, scanProgress,
                  scanResult >>

\* listen('streaming-scan-event') returns; call i invokes
\* scan_directory_streaming_command.
ListenReturns(i) ==
  /\ calls[i].at = "listen"
  /\ calls' = [calls EXCEPT ![i].at = "command", ![i].invoked = TRUE]
  /\ UNCHANGED << scanTarget, isScanning, currentView, scanError, canResumeScan,
                  showPermissionDialog, permissionDialogPath, scanCache,
                  lastToast, isMac, pendingCancel, scanProgress, scanResult >>

\* scan_directory_streaming_command resolves for call i: completeScan(result).
ScanCommandResolves(i) ==
  /\ calls[i].at = "command"
  /\ completeScan(ResultTree(calls[i].path, calls[i].cancelled))
  /\ calls' = [calls EXCEPT ![i].at = "returned", ![i].reported = "completed"]
  /\ UNCHANGED << scanTarget, scanError, canResumeScan, showPermissionDialog,
                  permissionDialogPath, lastToast, isMac, pendingCancel,
                  scanProgress >>

\* scan_directory_streaming_command rejects for call i: the catch block.
ScanCommandRejects(i, errorMessage) ==
  /\ calls[i].at = "command"
  /\ errorMessage = "Scan cancelled" => calls[i].cancelled
  /\ IF isMac /\ IsPermissionError(errorMessage)
       THEN /\ permissionDialogPath' = calls[i].path
            /\ showPermissionDialog' = TRUE
            /\ calls' = [calls EXCEPT ![i].at = "returned", ![i].reported = "dialog"]
            /\ UNCHANGED << isScanning, scanError, canResumeScan, lastToast >>
       ELSE /\ canResumeScan' = isResumableError(errorMessage)
            /\ handleScanError(errorMessage)
            /\ calls' = [calls EXCEPT ![i].at = "returned", ![i].reported = "failed"]
            /\ UNCHANGED << permissionDialogPath, showPermissionDialog >>
  /\ UNCHANGED << scanTarget, currentView, scanCache, isMac, pendingCancel,
                  scanProgress, scanResult >>

\* cancelScan() is called (the cancel and dismiss buttons are rendered while
\* isScanning || scanError) and cancel_scan_command runs in the backend: when
\* it succeeds, the scans in flight are cancelled.
CancelCommand(ok) ==
  /\ isScanning \/ scanError # "null"
  /\ pendingCancel = "none"
  /\ pendingCancel' = IF ok THEN "ok" ELSE "failed"
  /\ calls' = [i \in DOMAIN calls |->
                 IF ok /\ calls[i].at = "command"
                   THEN [calls[i] EXCEPT !.cancelled = TRUE] ELSE calls[i]]
  /\ UNCHANGED << scanTarget, isScanning, currentView, scanError, canResumeScan,
                  showPermissionDialog, permissionDialogPath, scanCache,
                  lastToast, isMac, scanProgress, scanResult >>

\* The scan state cancelScan writes: $isScanning, $scanError, $canResumeScan.
ScanState ==
  [isScanning |-> isScanning, scanError |-> scanError, canResumeScan |-> canResumeScan]

\* Variant: the failing branch flips $isScanning instead of clearing it.
cancelScanResult_Flip(state, ok) ==
  [isScanning |-> IF ok THEN FALSE ELSE ~state.isScanning,
   scanError |-> IF ok THEN "null" ELSE state.scanError,
   canResumeScan |-> IF ok THEN FALSE ELSE state.canResumeScan]

\* cancelScan(): what the try branch (ok) and the catch branch set.
cancelScanResult(state, ok) ==
  [isScanning |-> FALSE,
   scanError |-> IF ok THEN "null" ELSE state.scanError,
   canResumeScan |-> IF ok THEN FALSE ELSE state.canResumeScan]

\* export async function cancelScan(): the code after await invoke(...).
cancelScan ==
  /\ pendingCancel # "none"
  /\ pendingCancel' = "none"
  /\ LET after == cancelScanResult(ScanState, pendingCancel = "ok")
     IN /\ isScanning' = after.isScanning
        /\ scanError' = after.scanError
        /\ canResumeScan' = after.canResumeScan
  /\ lastToast' = IF pendingCancel = "ok" THEN "Scan Cancelled" ELSE "Scan Stopped"
  /\ UNCHANGED << scanTarget, currentView, showPermissionDialog,
                  permissionDialogPath, scanCache, isMac, calls, scanProgress,
                  scanResult >>

\* App: PermissionDialog onClose
ClosePermissionDialog ==
  /\ showPermissionDialog
  /\ showPermissionDialog' = FALSE
  /\ UNCHANGED << scanTarget, isScanning, currentView, scanError, canResumeScan,
                  permissionDialogPath, scanCache, lastToast, isMac, calls,
                  pendingCancel, scanProgress, scanResult >>

(***************************************************************************)
(* The scan cache: selectLocation of stores.ts.                            *)
(***************************************************************************)
VARIABLES
  selectedLocation,      \* $selectedLocation: "null" or the path of the location
  selectCall             \* the last selectLocation call: << >> or << [path, forceRescan, odd] >>

locationVars == << selectedLocation, selectCall >>

LocationIdle ==
  /\ selectedLocation = "null"
  /\ selectCall = << >>

\* export function hasCachedScan(path): path in cache
hasCachedScan(path) == scanCache[path] # << >>

\* export function getCachedScan(path): cache[path] || null
getCachedScan(path) == scanCache[path]

\* Variant: the cache is used whatever forceRescan says.
selectLocation_CacheFirst(location, forceRescan) ==
  /\ selectedLocation' = location
  /\ selectCall' = << [path |-> location, forceRescan |-> forceRescan,
                       odd |-> IF selectCall = << >> THEN TRUE ELSE ~selectCall[1].odd] >>
  /\ IF hasCachedScan(location) /\ getCachedScan(location) # << >>
       THEN /\ scanResult' = getCachedScan(location)
            /\ currentView' = getCachedScan(location)
            /\ scanTarget' = location
            /\ lastToast' = "Loaded from Cache"
            /\ UNCHANGED << isScanning, scanProgress, scanError, canResumeScan >>
       ELSE /\ startScan(location)
            /\ UNCHANGED lastToast
  /\ UNCHANGED << showPermissionDialog, permissionDialogPath, scanCache, isMac,
                  calls, pendingCancel >>

\* export function selectLocation(location, forceRescan = false); odd tells one
\* call from the next.
selectLocation(location, forceRescan) ==
  /\ selectedLocation' = location
  /\ selectCall' = << [path |-> location, forceRescan |-> forceRescan,
                       odd |-> IF selectCall = << >> THEN TRUE ELSE ~selectCall[1].odd] >>
  /\ IF ~forceRescan /\ hasCachedScan(location) /\ getCachedScan(location) # << >>
       THEN /\ scanResult' = getCachedScan(location)
            /\ currentView' = getCachedScan(location)
            /\ scanTarget' = location
            /\ lastToast' = "Loaded from Cache"
            /\ UNCHANGED << isScanning, scanProgress, scanError, canResumeScan >>
       ELSE /\ startScan(location)
            /\ UNCHANGED lastToast
  /\ UNCHANGED << showPermissionDialog, permissionDialogPath, scanCache, isMac,
                  calls, pendingCancel >>

(***************************************************************************)
(* Selection and deletion: $selectedItems of stores.ts and the state of    *)
(* DeletionDialog.  Sizes are in MiB.                                      *)
(***************************************************************************)
\* check_deletion_safety_command calls in flight at once.
MaxPendingChecks == 1

\* The scanned tree on display: /home holding doc, video and the mount point sys.
DeletePaths == {"/home/doc", "/home/video", "/home/sys"}

DeleteSize(path) ==
  CASE path = "/home/doc" -> 2 * 1024
    [] path = "/home/video" -> 11 * 1024
    [] OTHER -> 100

\* SafetyCheck.type the backend gives a path.
SafetyClass(path) == IF path = "/home/sys" THEN "Protected" ELSE "Safe"

DeleteTree ==
  [path |-> "/home", size |-> 13 * 1024 + 100, is_directory |-> TRUE,
   children |-> << [path |-> "/home/video", size |-> 11 * 1024,
                    is_directory |-> FALSE, children |-> << >>],
                   [path |-> "/home/doc", size |-> 2 * 1024,
                    is_directory |-> FALSE, children |-> << >>],
                   [path |-> "/home/sys", size |-> 100,
                    is_directory |-> FALSE, children |-> << >>] >>]

\* Texts the user may have typed in the confirmation field.
TypedTexts == {"", "delete", "DELETE"}

VARIABLES
  selectedItems,         \* $selectedItems: path -> boolean, over the keys set so far
  isDeletionDialogOpen,  \* App: isDeletionDialogOpen
  safetyChecks,          \* DeletionDialog: safetyChecks, as path -> type
  isCheckingSafety,      \* DeletionDialog: isCheckingSafety
  isDeleting,            \* DeletionDialog: isDeleting
  deletionResult,        \* DeletionDialog: deletionResult, << >> (null) or << result >>
  confirmationText,      \* DeletionDialog: confirmationText
  dialogError,           \* DeletionDialog: error is set
  pendingChecks,         \* check_deletion_safety_command calls in flight: their paths
  pendingDelete          \* delete_items_command in flight: << >> or << paths >>

deleteVars ==
  << selectedItems, isDeletionDialogOpen, safetyChecks, isCheckingSafety,
     isDeleting, deletionResult, confirmationText, dialogError, pendingChecks,
     pendingDelete >>

\* No selection, the dialog closed.
DeleteIdle ==
  /\ selectedItems = << >>
  /\ isDeletionDialogOpen = FALSE
  /\ safetyChecks = << >>
  /\ isCheckingSafety = FALSE
  /\ isDeleting = FALSE
  /\ deletionResult = << >>
  /\ confirmationText = ""
  /\ dialogError = FALSE
  /\ pendingChecks = << >>
  /\ pendingDelete = << >>

\* $selectedItemsArray: Object.keys(items).filter(key => items[key])
selectedItemsArray == { p \in DOMAIN selectedItems : selectedItems[p] }

\* findNodeByPath(root, path): << >> for null, << node >> otherwise.
RECURSIVE findNodeByPath(_, _)
findNodeByPath(root, path) ==
  IF root = << >> THEN << >>
  ELSE IF root[1].path = path THEN root
  ELSE LET found == Flatten([i \in DOMAIN root[1].children |->
                               findNodeByPath(<< root[1].children[i] >>, path)])
       IN IF found = << >> THEN << >> ELSE << Head(found) >>

\* selectedNodes.reduce((sum, node) => sum + node.size, 0)
totalSize ==
  LET found == { p \in selectedItemsArray : findNodeByPath(scanResult, p) # << >> }
  IN SumOver(found, [p \in found |-> findNodeByPath(scanResult, p)[1].size])

\* const requiresConfirmation = totalSize > 10 * 1024 * 1024 * 1024
requiresConfirmation == totalSize > 10 * 1024

confirmationPhrase == "DELETE"

\* safetyChecks.some(check => check.type === 'Protected' || check.type === 'InUse')
hasBlockingIssues ==
  \E p \in DOMAIN safetyChecks : safetyChecks[p] \in {"Protected", "InUse"}

\* checkSafety() up to its await: the command is invoked with selectedPaths.
checkSafety ==
  /\ isCheckingSafety' = TRUE
  /\ dialogError' = FALSE
  /\ pendingChecks' = Append(pendingChecks, selectedItemsArray)

\* toggleSelection(path), from the checkbox of a node on display.
toggleSelection(path) ==
  /\ ~isDeletionDialogOpen
  /\ findNodeByPath(currentView, path) # << >>
  /\ selectedItems' = [q \in DOMAIN selectedItems \cup {path} |->
                         IF q = path
                           THEN ~(path \in DOMAIN selectedItems /\ selectedItems[path])
                           ELSE selectedItems[q]]
  /\ UNCHANGED << isDeletionDialogOpen, safetyChecks, isCheckingSafety, isDeleting,
                  deletionResult, confirmationText, dialogError, pendingChecks,
                  pendingDelete >>

\* clearSelection(), from the Clear button or Ctrl/Cmd+D.
clearSelection ==
  /\ selectedItems # << >>
  /\ selectedItems' = << >>
  /\ UNCHANGED << isDeletionDialogOpen, safetyChecks, isCheckingSafety, isDeleting,
                  deletionResult, confirmationText, dialogError, pendingChecks,
                  pendingDelete >>

\* handleOpenDeletionDialog(), then the effect of DeletionDialog: checkSafety()
\* when isOpen && selectedPaths.length > 0 && !deletionResult.
handleOpenDeletionDialog ==
  /\ ~isDeletionDialogOpen
  /\ selectedItemsArray # {}
  /\ Len(pendingChecks) < MaxPendingChecks
  /\ isDeletionDialogOpen' = TRUE
  /\ IF deletionResult = << >>
       THEN checkSafety
       ELSE UNCHANGED << isCheckingSafety, dialogError, pendingChecks >>
  /\ UNCHANGED << selectedItems, safetyChecks, isDeleting, deletionResult,
                  confirmationText, pendingDelete >>

\* check_deletion_safety_command resolves: setSafetyChecks(checks), then finally.
SafetyCheckReturns ==
  /\ pendingChecks # << >>
  /\ safetyChecks' = [p \in Head(pendingChecks) |-> SafetyClass(p)]
  /\ isCheckingSafety' = FALSE
  /\ pendingChecks' = Tail(pendingChecks)
  /\ UNCHANGED << selectedItems, isDeletionDialogOpen, isDeleting, deletionResult,
                  confirmationText, dialogError, pendingDelete >>

\* check_deletion_safety_command rejects: setError(...), then finally.
SafetyCheckFails ==
  /\ pendingChecks # << >>
  /\ dialogError' = TRUE
  /\ isCheckingSafety' = FALSE
  /\ pendingChecks' = Tail(pendingChecks)
  /\ UNCHANGED << selectedItems, isDeletionDialogOpen, safetyChecks, isDeleting,
                  deletionResult, confirmationText, pendingDelete >>

\* The user types in the confirmation field, shown while
\* requiresConfirmation && !hasBlockingIssues.
TypeConfirmation(text) ==
  /\ isDeletionDialogOpen /\ deletionResult = << >>
  /\ requiresConfirmation /\ ~hasBlockingIssues
  /\ text # confirmationText
  /\ confirmationText' = text
  /\ UNCHANGED << selectedItems, isDeletionDialogOpen, safetyChecks, isCheckingSafety,
                  isDeleting, deletionResult, dialogError, pendingChecks,
                  pendingDelete >>

\* isDisabled of the Delete button
DeleteDisabled ==
  \/ isCheckingSafety
  \/ hasBlockingIssues
  \/ (requiresConfirmation /\ confirmationText # confirmationPhrase)

\* handleDelete(), from the Delete button: up to the await of delete_items_command.
handleDelete ==
  /\ isDeletionDialogOpen /\ deletionResult = << >>
  /\ ~isDeleting /\ ~DeleteDisabled
  /\ IF requiresConfirmation /\ confirmationText # confirmationPhrase
       THEN /\ dialogError' = TRUE
            /\ UNCHANGED << isDeleting, pendingDelete >>
       ELSE /\ isDeleting' = TRUE
            /\ dialogError' = FALSE
            /\ pendingDelete' = << selectedItemsArray >>
  /\ UNCHANGED << selectedItems, isDeletionDialogOpen, safetyChecks, isCheckingSafety,
                  deletionResult, confirmationText, pendingChecks >>

\* Variant: a failure aborts the whole selection.
completeDeletion_ClearAll(result) ==
  /\ selectedItems' = IF result.failed # {} THEN << >>
                      ELSE [p \in DOMAIN selectedItems \ result.deleted |-> selectedItems[p]]
  /\ lastToast' = IF result.failed # {} THEN "Some Items Failed to Delete"
                  ELSE IF result.deleted # {} THEN "Deletion Complete"
                  ELSE lastToast

\* export function completeDeletion(result)
completeDeletion(result) ==
  /\ selectedItems' = [p \in DOMAIN selectedItems \ result.deleted |-> selectedItems[p]]
  /\ lastToast' = IF result.failed # {} THEN "Some Items Failed to Delete"
                  ELSE IF result.deleted # {} THEN "Deletion Complete"
                  ELSE lastToast

\* delete_items_command resolves with the paths deleted and those that failed:
\* setDeletionResult(result); completeDeletion(result); then finally.
DeleteReturns(deleted) ==
  /\ pendingDelete # << >>
  /\ deleted \subseteq pendingDelete[1]
  /\ LET result == [deleted |-> deleted, failed |-> pendingDelete[1] \ deleted]
     IN /\ deletionResult' = << result >>
        /\ completeDeletion(result)
  /\ isDeleting' = FALSE
  /\ pendingDelete' = << >>
  /\ UNCHANGED << isDeletionDialogOpen, safetyChecks, isCheckingSafety,
                  confirmationText, dialogError, pendingChecks >>

\* delete_items_command rejects: setError(...), then finally.
DeleteFails ==
  /\ pendingDelete # << >>
  /\ dialogError' = TRUE
  /\ isDeleting' = FALSE
  /\ pendingDelete' = << >>
  /\ UNCHANGED << selectedItems, isDeletionDialogOpen, safetyChecks, isCheckingSafety,
                  deletionResult, confirmationText, pendingChecks >>

\* handleClose(), from Cancel, Close or the onClose of the Modal.
handleClose ==
  /\ isDeletionDialogOpen
  /\ safetyChecks' = << >>
  /\ deletionResult' = << >>
  /\ confirmationText' = ""
  /\ dialogError' = FALSE
  /\ isDeletionDialogOpen' = FALSE
  /\ UNCHANGED << selectedItems, isCheckingSafety, isDeleting, pendingChecks,
                  pendingDelete >>

(***************************************************************************)
(* Specifications: each runs one part of the system, the others idle.      *)
(***************************************************************************)
ScanNext ==
  \/ (\E p \in DOMAIN pc : AcquirePermit(p)) /\ UNCHANGED << treeVars, batchVars, uiVars, deleteVars, locationVars >>
  \/ (\E p \in DOMAIN pc : ReadMetadata(p)) /\ UNCHANGED << treeVars, batchVars, uiVars, deleteVars, locationVars >>
  \/ (\E p \in DOMAIN pc : SkipOrTrack(p)) /\ UNCHANGED << treeVars, batchVars, uiVars, deleteVars, locationVars >>
  \/ (\E p \in DOMAIN pc : UpdateProgress(p)) /\ UNCHANGED << treeVars, batchVars, uiVars, deleteVars, locationVars >>
  \/ (\E p \in DOMAIN pc : SpawnChildren(p)) /\ UNCHANGED << treeVars, batchVars, uiVars, deleteVars, locationVars >>
  \/ (\E p \in DOMAIN pc : ReleasePermit(p)) /\ UNCHANGED << treeVars, batchVars, uiVars, deleteVars, locationVars >>
  \/ ProgressTick /\ UNCHANGED << treeVars, batchVars, uiVars, deleteVars, locationVars >>
  \/ CancelRequest /\ UNCHANGED << treeVars, batchVars, uiVars, deleteVars, locationVars >>
  \/ CompleteScan /\ UNCHANGED << treeVars, batchVars, uiVars, deleteVars, locationVars >>
  \/ FinishCancelled /\ UNCHANGED << treeVars, batchVars, uiVars, deleteVars, locationVars >>

TreeNext ==
  \/ /\ \E path \in TreePaths : \E size \in SignalSizes(path) :
          addNodeIncremental(path, ParentOf(path), size, IsDirectoryPath(path))
     /\ UNCHANGED << scanVars, batchVars, uiVars, deleteVars, locationVars >>
  \/ AnimationFrame /\ UNCHANGED << scanVars, batchVars, uiVars, deleteVars, locationVars >>
  \/ clearIncrementalState /\ UNCHANGED << scanVars, batchVars, uiVars, deleteVars, locationVars >>
  \/ IntervalPasses /\ UNCHANGED << scanVars, batchVars, uiVars, deleteVars, locationVars >>
  \/ /\ \E max_depth \in 1 .. MaxTreeDepth : DeliverLazyTree(max_depth)
     /\ UNCHANGED << scanVars, batchVars, uiVars, deleteVars, locationVars >>

BatchNext ==
  \/ SendEvent /\ UNCHANGED << scanVars, treeVars, uiVars, deleteVars, locationVars >>
  \/ ReceiveEvent /\ UNCHANGED << scanVars, treeVars, uiVars, deleteVars, locationVars >>
  \/ SleepFires /\ UNCHANGED << scanVars, treeVars, uiVars, deleteVars, locationVars >>
  \/ BatchClock /\ UNCHANGED << scanVars, treeVars, uiVars, deleteVars, locationVars >>

UIRest == << scanSessionVars, treeLocalVars, batchVars, deleteVars, locationVars >>

UINext ==
  \/ (\E path \in UIPaths : handleLocationClick(path)) /\ UNCHANGED UIRest
  \/ handleRescan /\ UNCHANGED UIRest
  \/ RefreshShortcut /\ UNCHANGED UIRest
  \/ handleResume /\ UNCHANGED UIRest
  \/ /\ \E i \in DOMAIN calls : \E isValid \in BOOLEAN : ValidateReturns(i, isValid)
     /\ UNCHANGED UIRest
  \/ /\ \E i \in DOMAIN calls : \E hasPermission \in BOOLEAN :
          PermissionCheckReturns(i, hasPermission)
     /\ UNCHANGED UIRest
  \/ (\E i \in DOMAIN calls : ListenReturns(i)) /\ UNCHANGED UIRest
  \/ (\E i \in DOMAIN calls : ScanCommandResolves(i)) /\ UNCHANGED UIRest
  \/ /\ \E i \in DOMAIN calls : \E errorMessage \in ErrorMessages :
          ScanCommandRejects(i, errorMessage)
     /\ UNCHANGED UIRest
  \/ (\E ok \in BOOLEAN : CancelCommand(ok)) /\ UNCHANGED UIRest
  \/ cancelScan /\ UNCHANGED UIRest
  \/ ClosePermissionDialog /\ UNCHANGED UIRest

\* Locations selected through selectLocation or clicked, off a Mac; the scans
\* run to their end.
CacheNext ==
  \/ (\E path \in UIPaths : handleLocationClick(path)) /\ UNCHANGED UIRest
  \/ /\ \E i \in DOMAIN calls : \E isValid \in BOOLEAN : ValidateReturns(i, isValid)
     /\ UNCHANGED UIRest
  \/ (\E i \in DOMAIN calls : ListenReturns(i)) /\ UNCHANGED UIRest
  \/ (\E i \in DOMAIN calls : ScanCommandResolves(i)) /\ UNCHANGED UIRest
  \/ /\ \E i \in DOMAIN calls : \E errorMessage \in ErrorMessages :
          ScanCommandRejects(i, errorMessage)
     /\ UNCHANGED UIRest
  \/ /\ \E location \in UIPaths : \E forceRescan \in BOOLEAN :
          selectLocation(location, forceRescan)
     /\ UNCHANGED << scanSessionVars, treeLocalVars, batchVars, deleteVars >>

ScenarioNext ==
  \/ (\E path \in ScenarioPaths : ScenarioDiscover(path)) /\ UNCHANGED << batchVars, uiVars, deleteVars, locationVars >>
  \/ AnimationFrame /\ UNCHANGED << scanVars, batchVars, uiVars, deleteVars, locationVars >>
  \/ IntervalPasses /\ UNCHANGED << scanVars, batchVars, uiVars, deleteVars, locationVars >>

\* What the selection and the deletion dialog leave alone.
DeleteRest ==
  << scanVars, treeVars, batchVars, scanTarget, isScanning, currentView, scanError,
     canResumeScan, showPermissionDialog, permissionDialogPath, scanCache, isMac,
     calls, pendingCancel, locationVars >>

DeleteNext ==
  \/ /\ \E path \in DeletePaths : toggleSelection(path)
     /\ UNCHANGED << DeleteRest, lastToast >>
  \/ clearSelection /\ UNCHANGED << DeleteRest, lastToast >>
  \/ handleOpenDeletionDialog /\ UNCHANGED << DeleteRest, lastToast >>
  \/ SafetyCheckReturns /\ UNCHANGED << DeleteRest, lastToast >>
  \/ SafetyCheckFails /\ UNCHANGED << DeleteRest, lastToast >>
  \/ (\E text \in TypedTexts : TypeConfirmation(text)) /\ UNCHANGED << DeleteRest, lastToast >>
  \/ handleDelete /\ UNCHANGED << DeleteRest, lastToast >>
  \/ (\E deleted \in SUBSET DeletePaths : DeleteReturns(deleted)) /\ UNCHANGED DeleteRest
  \/ DeleteFails /\ UNCHANGED << DeleteRest, lastToast >>
  \/ handleClose /\ UNCHANGED << DeleteRest, lastToast >>
  \/ handleRescan /\ UNCHANGED UIRest

vars == << scanVars, treeVars, batchVars, uiVars, deleteVars, locationVars >>

\* The front end before any scan, on a platform other than macOS.
UIIdle == StoresInit /\ isMac = FALSE

\* The front end before any scan, on either platform.
UIInit == StoresInit /\ isMac \in BOOLEAN

\* No scan session runs.
ScanIdle ==
  /\ rootValid = FALSE
  /\ mounted = FALSE
  /\ concurrency_limit = ConcurrencyLimit
  /\ pc = << >>
  /\ visits = << >>
  /\ permits = 0
  /\ seen_inodes = {}
  /\ files_scanned = 0
  /\ total_size = 0
  /\ current_path = << "none" >>
  /\ registry = {}
  /\ skipped = {}
  /\ cancelled = FALSE
  /\ status = "idle"
  /\ lastEvent = NoEvent
  /\ scanProgress = NoProgress

\* The scan session alone: the tree builders stay idle.
InitScan == ScanInit /\ mounted = FALSE /\ TreeInit /\ BatchInit /\ UIIdle /\ DeleteIdle /\ LocationIdle

SpecScan == InitScan /\ [][ScanNext]_vars

\* The scan session on a tree that holds the mount point of a second device.
InitMount ==
  /\ ScanInit /\ mounted = TRUE
  /\ TreeInit /\ BatchInit /\ UIIdle /\ DeleteIdle /\ LocationIdle

SpecMount == InitMount /\ [][ScanNext]_vars

\* The scan session under a scheduler that runs every runnable task and a
\* semaphore that hands a free permit to a waiting task.
SpecScanFair ==
  /\ InitScan /\ [][ScanNext]_vars
  /\ WF_vars(TaskStep /\ UNCHANGED << treeVars, batchVars, uiVars, deleteVars, locationVars >>)
  /\ WF_vars(CompleteScan /\ UNCHANGED << treeVars, batchVars, uiVars, deleteVars, locationVars >>)
  /\ WF_vars(FinishCancelled /\ UNCHANGED << treeVars, batchVars, uiVars, deleteVars, locationVars >>)

\* The registry and the tree builders alone.
InitTree == TreeInit /\ ScanIdle /\ BatchInit /\ UIIdle /\ DeleteIdle /\ LocationIdle

SpecTree == InitTree /\ [][TreeNext]_vars

\* The scan of the scenario's directory, its signals building the tree.
InitScenario == TreeInit /\ ScanIdle /\ BatchInit /\ UIIdle /\ DeleteIdle /\ LocationIdle

SpecScenario == InitScenario /\ [][ScenarioNext]_vars

\* The event batcher alone.
InitBatch == BatchInit /\ ScanIdle /\ TreeInit /\ UIIdle /\ DeleteIdle /\ LocationIdle

SpecBatch == InitBatch /\ [][BatchNext]_vars

\* The front end alone, off a Mac, before any location is selected.
InitCache == UIIdle /\ ScanIdle /\ TreeInit /\ BatchInit /\ DeleteIdle /\ LocationIdle

SpecCache == InitCache /\ [][CacheNext]_vars

\* Scans started from the sidebar, off a Mac, each running to its end; the
\* node_discovered signals of a scan arrive while its command is in flight.
SessionNext ==
  \/ (\E path \in UIPaths : handleLocationClick(path)) /\ UNCHANGED UIRest
  \/ /\ \E i \in DOMAIN calls : \E isValid \in BOOLEAN : ValidateReturns(i, isValid)
     /\ UNCHANGED UIRest
  \/ (\E i \in DOMAIN calls : ListenReturns(i)) /\ UNCHANGED UIRest
  \/ (\E i \in DOMAIN calls : ScanCommandResolves(i)) /\ UNCHANGED UIRest
  \/ /\ \E i \in DOMAIN calls : calls[i].at = "command"
     /\ \E path \in TreePaths : \E size \in SignalSizes(path) :
          addNodeIncremental(path, ParentOf(path), size, IsDirectoryPath(path))
     /\ UNCHANGED << scanVars, batchVars, uiVars, deleteVars, locationVars >>
  \/ AnimationFrame /\ UNCHANGED << scanVars, batchVars, uiVars, deleteVars, locationVars >>

InitSession == UIIdle /\ ScanIdle /\ TreeInit /\ BatchInit /\ DeleteIdle /\ LocationIdle

SpecSession == InitSession /\ [][SessionNext]_vars

\* The events received since the last emit, oldest first, each named by the
\* number of events received after it.
Descending(n) == [i \in 1 .. n |-> n - i]

\* The batcher of a stream of at most MaxEvents further signals, its batch empty
\* or one short of the limit.
StreamInit ==
  /\ batchLen \in {0, BatchLimit - 1}
  /\ batchAge = 0
  /\ sleepLeft = FlushIntervalMs
  /\ lastBatch = 0
  /\ channel = 0
  /\ batch = Descending(batchLen)
  /\ emittedBatch = << >>
  /\ unemitted = batchLen
  /\ toSend \in 0 .. MaxEvents

InitStream == StreamInit /\ ScanIdle /\ TreeInit /\ UIIdle /\ DeleteIdle /\ LocationIdle

\* The batcher task is scheduled and time passes.
SpecStream ==
  /\ InitStream
  /\ [][BatchNext]_vars
  /\ WF_vars(ReceiveEvent /\ UNCHANGED << scanVars, treeVars, uiVars, deleteVars, locationVars >>)
  /\ WF_vars(SleepFires /\ UNCHANGED << scanVars, treeVars, uiVars, deleteVars, locationVars >>)
  /\ WF_vars(BatchClock /\ UNCHANGED << scanVars, treeVars, uiVars, deleteVars, locationVars >>)

\* The front end after a completed scan of /home, its tree on display.
InitDelete ==
  /\ DeleteIdle /\ LocationIdle /\ ScanIdle /\ BatchInit
  /\ nodeRegistry = << >> /\ childrenMap = << >> /\ rootPath = "null"
  /\ intervalElapsed = TRUE /\ pendingUpdate = FALSE /\ frames = 0
  /\ lazyTree = << >> /\ lazyDepth = 0 /\ lazyMemo = EmptyMemo /\ signals = 0
  /\ scanResult = << DeleteTree >>
  /\ currentView = << DeleteTree >>
  /\ scanTarget = "/home"
  /\ isScanning = FALSE
  /\ scanError = "null"
  /\ canResumeScan = FALSE
  /\ showPermissionDialog = FALSE
  /\ permissionDialogPath = ""
  /\ scanCache = [p \in UIPaths |-> IF p = "/home" THEN << DeleteTree >> ELSE << >>]
  /\ lastToast = "none"
  /\ isMac = FALSE
  /\ calls = << [path |-> "/home", at |-> "returned", valid |-> "yes",
                 invoked |-> TRUE, cancelled |-> FALSE, reported |-> "completed"] >>
  /\ pendingCancel = "none"

SpecDelete == InitDelete /\ [][DeleteNext]_vars

\* The front end alone, the backend seen through the commands it answers.
InitUI == UIInit /\ ScanIdle /\ TreeInit /\ BatchInit /\ DeleteIdle /\ LocationIdle

SpecUI == InitUI /\ [][UINext]_vars

(***************************************************************************)
(* Properties of the scan session.                                         *)
(***************************************************************************)
EntrySize(c) == Blocks(c) * BlockSize

\* Ground truth read off the filesystem: the entries a traversal that follows no
\* link can count, and their storage objects (device, inode).
Countable ==
  { c \in Canon : ~ThroughSymlink(c) /\ Kind(c) # "symlink" /\ c \notin Unreadable }

StorageId(c) == << Device(c), Inode(c) >>

StorageObjects == { StorageId(c) : c \in Countable }

ObjectSize(id) == EntrySize(CHOOSE c \in Countable : StorageId(c) = id)

ExpectedCount == Cardinality(StorageObjects)

ExpectedSize == SumOver(StorageObjects, [id \in StorageObjects |-> ObjectSize(id)])

RegistrySize == SumOver(registry, [p \in registry |-> EntrySize(Real(p))])

\* C1: two hard-linked paths of the same (device, inode) are counted exactly once
\* in files_scanned and total_size, whichever worker discovers its path first:
\* no two registered (counted) paths share a storage object, the counters are
\* those of the registered paths, and a completed scan reports the totals of the
\* distinct storage objects.
C1_HardLinkCountedOnce ==
  /\ \A p, q \in registry : StorageId(Real(p)) = StorageId(Real(q)) => p = q
  /\ files_scanned = Cardinality(registry)
  /\ total_size = RegistrySize
  /\ status = "completed" =>
       /\ files_scanned = ExpectedCount
       /\ total_size = ExpectedSize

\* Both hard links were inspected and the later-listed one, /d/g, won the count.
C1_Witness ==
  /\ status = "completed"
  /\ <<"d", "g">> \in registry
  /\ <<"f">> \in DOMAIN visits
  /\ <<"f">> \notin registry

InFlight == { p \in DOMAIN pc : pc[p] \in {"stat", "meta", "tracked", "readdir", "release"} }

\* C2: at no point do more than concurrency_limit metadata or directory reads run
\* at once: the tasks between acquire and release are exactly the permits held,
\* and never more than the limit.
C2_ConcurrencyBound ==
  /\ permits = Cardinality(InFlight)
  /\ permits <= concurrency_limit
  /\ permits >= 0

\* Every permit is held while another task waits for one.
C2_Witness ==
  /\ permits = concurrency_limit
  /\ \E p \in DOMAIN pc : pc[p] = "spawned"

\* C4: files_scanned and total_size never decrease during a session, each emitted
\* event (and the progress the front end stores) carries values at least those of
\* the event before it, and the complete event carries the final counters.
C4_CountersMonotone ==
  /\ [][ /\ files_scanned' >= files_scanned
         /\ total_size' >= total_size
         /\ lastEvent'.files_scanned >= lastEvent.files_scanned
         /\ lastEvent'.total_size >= lastEvent.total_size
         /\ scanProgress'.files_scanned >= scanProgress.files_scanned
         /\ scanProgress'.total_size >= scanProgress.total_size ]_vars
  /\ [](status = "completed" =>
          /\ lastEvent.type = "complete"
          /\ lastEvent.files_scanned = files_scanned
          /\ lastEvent.total_size = total_size
          /\ scanProgress.files_scanned <= files_scanned
          /\ scanProgress.total_size <= total_size)

\* A completed scan whose last stored progress lags behind the complete event.
C4_Witness ==
  /\ status = "completed"
  /\ scanProgress.set
  /\ scanProgress.files_scanned > 0
  /\ scanProgress.files_scanned < lastEvent.files_scanned

\* C5: no task is ever spawned for a path through a symbolic link, no directory
\* read is made on a link, every path is inspected at most once and the paths
\* inspected are entries of the (finite) tree: cyclic links cannot make the
\* traversal loop.
C5_NoSymlinkRecursion ==
  /\ \A p \in DOMAIN pc : ~ThroughSymlink(p) /\ p \in Canon
  /\ \A p \in DOMAIN pc : pc[p] \in {"tracked", "readdir"} => Kind(Real(p)) # "symlink"
  /\ \A p \in DOMAIN visits : visits[p] <= 1
  /\ \A p \in registry : Kind(Real(p)) # "symlink"

\* Both links, the cyclic one included, were inspected and the scan completed.
C5_Witness ==
  /\ status = "completed"
  /\ <<"d", "t">> \in DOMAIN visits
  /\ <<"s">> \in DOMAIN visits

Remaining(p) ==
  CASE pc[p] = "spawned" -> 1
    [] pc[p] = "stat" -> 5
    [] pc[p] = "meta" -> 4
    [] pc[p] = "tracked" -> 3
    [] pc[p] = "readdir" -> 2
    [] pc[p] = "release" -> 1
    [] OTHER -> 0

\* Steps the tasks of the session still have to take.
Outstanding == SumOver(DOMAIN pc, [p \in DOMAIN pc |-> Remaining(p)])

C9_EntryErrorsSkipped ==
  /\ skipped \subseteq { p \in DOMAIN pc : MetadataFails(p) /\ p # RootPath }
  /\ status = "failed" => ~rootValid
  /\ status = "completed" =>
       /\ skipped = { c \in Canon : ~ThroughSymlink(c) /\ c \in Unreadable }
       /\ { StorageId(Real(p)) : p \in registry } = StorageObjects
       /\ files_scanned = ExpectedCount

\* The unreadable entry was skipped and the scan completed.
C9_Witness ==
  /\ status = "completed"
  /\ <<"e">> \in skipped
  /\ files_scanned = ExpectedCount


(***************************************************************************)
(* Properties of the tree builders.                                        *)
(***************************************************************************)
ChildrenSum(t) == SeqSum([i \in DOMAIN t.children |-> t.children[i].size])

\* Every directory of tree t reports the sum of the sizes of its children in t.
RECURSIVE WellSummed(_)
WellSummed(t) ==
  /\ t.is_directory => t.size = ChildrenSum(t)
  /\ \A i \in DOMAIN t.children : WellSummed(t.children[i])

\* The same for a tree built with `levels` levels below t: a node at the cutoff
\* (levels = 0) is delivered without children, whatever its size.
RECURSIVE WellSummedAbove(_, _)
WellSummedAbove(t, levels) ==
  IF levels = 0 THEN t.children = << >>
  ELSE /\ t.is_directory => t.size = ChildrenSum(t)
       /\ \A i \in DOMAIN t.children : WellSummedAbove(t.children[i], levels - 1)

\* C3 as stated: in every delivered output tree, the tree of buildTreeFromRegistry
\* and the depth-bounded tree of a scan alike, every directory's size is the sum
\* of the sizes of its immediate children present in that tree.
C3_EveryDirectorySumsChildren ==
  /\ \A i \in DOMAIN scanResult : WellSummed(scanResult[i])
  /\ \A i \in DOMAIN lazyTree : WellSummed(lazyTree[i])

\* C3 amended: every directory of a tree returned by buildTreeFromRegistry reports
\* the sum of its children present in the tree; in the depth-bounded tree this
\* holds for the directories above the cutoff, and a directory at the cutoff is
\* delivered without children.
C3_DirectorySumsChildrenAboveCutoff ==
  /\ \A i \in DOMAIN scanResult : WellSummed(scanResult[i])
  /\ \A i \in DOMAIN lazyTree : WellSummedAbove(lazyTree[i], lazyDepth - 1)

\* buildTreeFromRegistry summed r = b + a = 3 + 2, and the depth-bounded build cut
\* the non-empty directory a off from its child.
C3_Witness ==
  /\ scanResult # << >>
  /\ scanResult[1].size = 5
  /\ Len(scanResult[1].children) = 2
  /\ lazyTree # << >>
  /\ lazyDepth = 2
  /\ \E i \in DOMAIN lazyTree[1].children :
       /\ lazyTree[1].children[i].is_directory
       /\ lazyTree[1].children[i].size = 2
       /\ lazyTree[1].children[i].children = << >>

\* The nodes of tree t, t included.
RECURSIVE TreeNodes(_)
TreeNodes(t) ==
  {t} \cup UNION { TreeNodes(t.children[i]) : i \in DOMAIN t.children }

\* Levels of tree t.
RECURSIVE TreeHeight(_)
TreeHeight(t) ==
  IF t.children = << >> THEN 1
  ELSE 1 + CHOOSE h \in 0 .. MaxTreeDepth + 1 :
             /\ \E i \in DOMAIN t.children : TreeHeight(t.children[i]) = h
             /\ \A i \in DOMAIN t.children : TreeHeight(t.children[i]) <= h

\* Path q lies below path p through registered, listed nodes only.
RECURSIVE LinkedBelow(_, _)
LinkedBelow(q, p) ==
  /\ q \in DOMAIN nodeRegistry
  /\ ParentOf(q) # "null"
  /\ \E i \in DOMAIN ChildPaths(ParentOf(q)) : ChildPaths(ParentOf(q))[i] = q
  /\ ParentOf(q) = p \/ LinkedBelow(ParentOf(q), p)

\* The files of the registry below p.
FilesBelow(p) ==
  { q \in DOMAIN nodeRegistry : ~nodeRegistry[q].is_directory /\ LinkedBelow(q, p) }

C12_RebuildKeepsSizes ==
  [][ ( /\ lazyTree # << >> /\ lazyTree' # << >>
        /\ nodeRegistry' = nodeRegistry /\ childrenMap' = childrenMap ) =>
      \A t \in TreeNodes(lazyTree[1]) : \A u \in TreeNodes(lazyTree'[1]) :
        t.path = u.path => t.size = u.size ]_vars

\* The tree delivered at cutoff 2 shows a and b; the build at cutoff 1 of the same
\* registry shows the root alone, with the same total.
C12_Witness ==
  /\ lazyTree # << >> /\ rootPath = "r" /\ ListedOnce
  /\ lazyDepth = 2
  /\ Len(lazyTree[1].children) = 2
  /\ lazyTree[1].size = 5
  /\ build_tree_recursive_lazy("r", 0, 1) = << [lazyTree[1] EXCEPT !.children = << >>] >>

\* The files of tree t.
FileNodes(t) == { u \in TreeNodes(t) : ~u.is_directory }

\* Every directory of the tree reports the sizes of the files below it in the
\* tree and nothing of its own; the whole scenario gives 650 and 50.
ScenarioTreeSizes ==
  \A i \in DOMAIN scanResult :
    /\ \A t \in TreeNodes(scanResult[i]) :
         t.is_directory =>
           t.size = SumOver(FileNodes(t), [u \in FileNodes(t) |-> u.size])
    /\ Cardinality(TreeNodes(scanResult[i])) = Cardinality(ScenarioPaths) =>
         /\ scanResult[i].size = 650
         /\ \A t \in TreeNodes(scanResult[i]) : t.path = "root/sub" => t.size = 50

C8_BatchSizeAndAgeBounded ==
  /\ lastBatch <= BatchLimit
  /\ batchLen > 0 => batchAge <= FlushIntervalMs

\* Capacity of the bounded channel the specification asks for.
QueueCapacity == 2

\* C14: the queue between the scanner and the batcher is bounded: it never
\* buffers more than a fixed capacity of signals (a send that finds it full
\* waits and leaves it at the capacity).
C14_QueueBounded == channel <= QueueCapacity

(***************************************************************************)
(* Properties of the front-end scan state.                                 *)
(***************************************************************************)
\* C7: a scan that has been cancelled ends as cancelled, a status of its own:
\* it is never reported to the caller as a completed scan (completeScan with
\* its result) and never as an error (handleScanError).
C7_CancelledNeverCompletedNorFailed ==
  \A i \in DOMAIN calls :
    calls[i].cancelled => calls[i].reported \notin {"completed", "failed"}

\* C10: when validate_path_command answers false the scan never starts: the
\* call does not invoke the scan command, and in the step that receives the
\* answer $isScanning becomes false and $scanError is set.
C10_InvalidRootNeverScanned ==
  /\ [](\A i \in DOMAIN calls :
         calls[i].valid = "no" =>
           /\ ~calls[i].invoked
           /\ calls[i].at = "returned"
           /\ calls[i].reported = "failed")
  /\ [][\A i \in DOMAIN calls :
         (calls[i].valid = "unknown" /\ calls'[i].valid = "no") =>
           (~isScanning' /\ scanError' = InvalidPathMessage)]_vars

C10_Witness ==
  \E i \in DOMAIN calls :
    /\ calls[i].valid = "no" /\ calls[i].at = "returned"
    /\ ~calls[i].invoked
    /\ ~isScanning /\ scanError = InvalidPathMessage

(***************************************************************************)
(* Claims about selection and deletion                                     *)
(***************************************************************************)
\* The size above which the README asks for typed confirmation: 1 GB, in MiB.
DocumentedConfirmationSize == 1 * 1024

\* delete_items_command is invoked in this step.
DeleteInvoked == pendingDelete = << >> /\ pendingDelete' # << >>

\* C15: delete_items is invoked only when the safety check of the paths it
\* is invoked with has returned, and none of them is Protected or InUse.
C15_DeleteOnlyAfterSafeCheck ==
  [][DeleteInvoked =>
       /\ DOMAIN safetyChecks = pendingDelete'[1]
       /\ \A p \in pendingDelete'[1] : SafetyClass(p) \notin {"Protected", "InUse"}]_vars

\* C16: every selected path is the path of a node of the tree in $scanResult.
C16_SelectedPathsInScanResult ==
  \A p \in selectedItemsArray : findNodeByPath(scanResult, p) # << >>

\* C17: the step that delivers a deletion result removes from the selection
\* exactly the paths of result.deleted; every other key keeps its value, and
\* every failed path that was selected is still selected.
C17_OnlyDeletedLeaveSelection ==
  [][(deletionResult' # deletionResult /\ deletionResult' # << >>) =>
       LET result == deletionResult'[1]
       IN /\ selectedItemsArray' = selectedItemsArray \ result.deleted
          /\ \A p \in DOMAIN selectedItems \ result.deleted :
               p \in DOMAIN selectedItems' /\ selectedItems'[p] = selectedItems[p]
          /\ result.failed \cap selectedItemsArray \subseteq selectedItemsArray']_vars

\* A result with both deleted and failed paths came back; the failed ones are selected.
C17_Witness ==
  /\ deletionResult # << >>
  /\ deletionResult[1].deleted # {}
  /\ deletionResult[1].failed # {}
  /\ deletionResult[1].failed \subseteq selectedItemsArray
  /\ deletionResult[1].deleted \cap selectedItemsArray = {}

\* C18: delete_items is invoked with more than 1 GB selected only if the user
\* has typed DELETE.
C18_LargeDeleteTyped ==
  [][(DeleteInvoked /\ totalSize > DocumentedConfirmationSize)
       => confirmationText = confirmationPhrase]_vars

(***************************************************************************)
(* Claims about the scan cache and resumable errors                        *)
(***************************************************************************)
\* selectLocation is called in this step.
SelectLocationCalled == selectCall' # selectCall

\* C19: selectLocation with forceRescan false and a cached result for the path
\* loads that result into $scanResult and $currentView and starts no scan
\* ($isScanning keeps its value); with forceRescan true, or nothing cached, it
\* starts a new scan of the path.
C19_CacheLoadedUnlessForced ==
  [][SelectLocationCalled =>
       LET call == selectCall'[1]
       IN IF ~call.forceRescan /\ scanCache[call.path] # << >>
            THEN /\ scanResult' = scanCache[call.path]
                 /\ currentView' = scanCache[call.path]
                 /\ isScanning' = isScanning
                 /\ calls' = calls
            ELSE /\ isScanning'
                 /\ scanTarget' = call.path
                 /\ scanResult' = << >>
                 /\ currentView' = << >>]_vars

\* A cached result was loaded by the last call, after an earlier call; no scan runs.
C19_Witness ==
  /\ selectCall # << >>
  /\ ~selectCall[1].forceRescan
  /\ ~selectCall[1].odd
  /\ lastToast = "Loaded from Cache"
  /\ scanResult = scanCache[selectCall[1].path]
  /\ currentView = scanResult
  /\ scanResult # << >>
  /\ ~isScanning

\* C20: a scan error that is not resumable (its message holds none of the
\* four patterns) leaves $canResumeScan false.
C20_OtherErrorsNotResumable ==
  (scanError # "null" /\ ~isResumableError(scanError)) => ~canResumeScan

\* cancelScan returns in this step.
CancelReturned == pendingCancel # "none" /\ pendingCancel' = "none"

TaskCanStep(p) ==
  \/ pc[p] \in {"stat", "meta", "tracked", "readdir"}
  \/ pc[p] = "release" /\ \A k \in AwaitedBeforeRelease(p) : pc[k] = "done"
  \/ pc[p] = "spawned" /\ (~MayBeginWork(cancelled) \/ PermitFree(permits))

Terminal == status \in {"completed", "cancelled", "failed"}

\* C22: the scan never deadlocks on permits (while it runs and a task is
\* unfinished, some task can step, whatever the limit and however deep or wide
\* the tree), and it eventually reaches a terminal status.
C22_NoPermitDeadlockAndTerminates ==
  /\ []((Running /\ ~AllTasksDone) => \E p \in DOMAIN pc : TaskCanStep(p))
  /\ <>Terminal

\* A limit of one permit, held by a directory that has spawned its entries
\* (more entries than permits, and a subtree deeper than the limit).
C22_Witness ==
  /\ concurrency_limit = 1
  /\ permits = 1
  /\ <<"d">> \in DOMAIN pc /\ pc[<<"d">>] = "release"
  /\ <<"d", "g">> \in DOMAIN pc /\ pc[<<"d", "g">>] = "spawned"
  /\ \E q \in DOMAIN pc : Len(q) = 1 /\ pc[q] = "spawned"

\* The cancellation signal is set in this step.
CancellationSet == ~cancelled /\ cancelled'

RegisteredAs(id) == { p \in registry : StorageId(Real(p)) = id }

\* C24: each (device, inode) pair of the scanned tree appears exactly once in
\* the registry (never twice, and once when the scan has completed), and no
\* alias adds to the size sum.
C24_EachPairExactlyOnce ==
  /\ \A id \in StorageObjects : Cardinality(RegisteredAs(id)) <= 1
  /\ total_size = RegistrySize
  /\ status = "completed" => \A id \in StorageObjects : Cardinality(RegisteredAs(id)) = 1

\* C25: two distinct directories or files with the same inode number on
\* different devices are both counted: a completed scan has registered /d and
\* /m and reports the count and the size of all storage objects.
C25_SameInodeOtherDeviceCounted ==
  (status = "completed" /\ mounted) =>
    /\ <<"d">> \in registry /\ <<"m">> \in registry
    /\ files_scanned = ExpectedCount
    /\ total_size = ExpectedSize

\* C26: a symbolic link that a worker has inspected (in a scan not cancelled)
\* is a node of the registry; it adds nothing to total_size and no task is
\* spawned below it.
C26_SymlinkRecordedAsZeroLeaf ==
  /\ \A p \in DOMAIN pc :
       (pc[p] = "done" /\ p \in DOMAIN visits /\ IsSymlink(p) /\ ~cancelled)
         => p \in registry
  /\ total_size = SumOver(registry, [p \in registry |->
                    IF IsSymlink(p) THEN 0 ELSE EntrySize(Real(p))])
  /\ \A p \in DOMAIN pc : ~ThroughSymlink(p)

(***************************************************************************)
(* Further claims about the tree builders                                  *)
(***************************************************************************)
\* Every registered path's parent is registered, and the root is known.
AllResolve ==
  /\ rootPath # "null"
  /\ \A p \in DOMAIN nodeRegistry :
       ParentOf(p) = "null" \/ ParentOf(p) \in DOMAIN nodeRegistry

\* Path q lies below path p in the scanned tree.
RECURSIVE Below(_, _)
Below(q, p) ==
  ParentOf(q) # "null" /\ (ParentOf(q) = p \/ Below(ParentOf(q), p))

\* What the signals delivered say, whatever their order: the children of p and
\* the sizes of the files below p.
SignalledChildren(p) == { q \in DOMAIN nodeRegistry : ParentOf(q) = p }

SignalledSize(p) ==
  LET files == { q \in DOMAIN nodeRegistry : ~nodeRegistry[q].is_directory /\ Below(q, p) }
  IN SumOver(files, [q \in files |-> nodeRegistry[q].size])

\* C27: when each signal was delivered once and every parent_path resolves,
\* buildTreeFromRegistry gives every directory the children and the size that
\* the set of delivered signals determines, in whatever order they arrived.
C27_TreeIndependentOfArrivalOrder ==
  (AllResolve /\ ListedOnce) =>
    LET built == buildTreeFromRegistry(rootPath)
    IN /\ built # << >>
       /\ { t.path : t \in TreeNodes(built[1]) } = DOMAIN nodeRegistry
       /\ \A t \in TreeNodes(built[1]) :
            t.is_directory =>
              /\ { t.children[i].path : i \in DOMAIN t.children } = SignalledChildren(t.path)
              /\ Len(t.children) = Cardinality(SignalledChildren(t.path))
              /\ t.size = SignalledSize(t.path)

\* The whole tree was delivered, b before its sibling a and x listed under a,
\* and the tree on display is the one built from it.
C27_Witness ==
  /\ AllResolve /\ ListedOnce
  /\ DOMAIN nodeRegistry = TreePaths
  /\ ChildPaths("r") = << "b", "a" >>
  /\ ChildPaths("a") = << "x" >>
  /\ scanResult = buildTreeFromRegistry(rootPath)

\* The sum of the registered sizes of the files found by walking the whole
\* subtree of path through the child lists.
RECURSIVE NaiveWalk(_)
NaiveWalk(path) ==
  IF path \notin DOMAIN nodeRegistry THEN 0
  ELSE IF ~nodeRegistry[path].is_directory THEN nodeRegistry[path].size
  ELSE LET childPaths == ChildPaths(path)
       IN SeqSum([i \in DOMAIN childPaths |-> NaiveWalk(childPaths[i])])

\* C28: a build computes the size of a registry node at most once, later needs
\* reading the cache, and every node it delivers and every size it caches
\* is the size a naive walk of the node's whole subtree gives.
C28_MemoizedOnceAndAsNaiveWalk ==
  (lazyTree # << >> /\ rootPath # "null") =>
    /\ \A p \in DOMAIN lazyMemo.computed : lazyMemo.computed[p] <= 1
    /\ \A p \in DOMAIN lazyMemo.size_cache : lazyMemo.size_cache[p] = NaiveWalk(p)
    /\ \A t \in TreeNodes(lazyTree[1]) :
         /\ t.path \in DOMAIN lazyMemo.size_cache
         /\ t.size = lazyMemo.size_cache[t.path]
         /\ t.size = NaiveWalk(t.path)

\* A build at cutoff 2 of the whole tree: the sizes of a and b were needed by
\* the root and again by their own nodes, x's by a, and each was computed once.
C28_Witness ==
  /\ lazyTree # << >> /\ rootPath = "r"
  /\ lazyDepth = 2
  /\ Len(lazyTree[1].children) = 2
  /\ DOMAIN lazyMemo.size_cache = TreePaths
  /\ \A p \in TreePaths : lazyMemo.computed[p] = 1
  /\ lazyMemo.size_cache["a"] = nodeRegistry["x"].size

(***************************************************************************)
(* Further claims about the front end                                      *)
(***************************************************************************)
\* Call i of scanDirectoryStreaming returns in this step.
CallReturns(i) == calls[i].at # "returned" /\ calls'[i].at = "returned"

\* C29: a scanDirectoryStreaming call that returns, on whatever outcome, while
\* no other call is in flight, leaves $isScanning false.
C29_ReturnedCallEndsScanning ==
  [][ \A i \in DOMAIN calls :
        ( /\ CallReturns(i)
          /\ \A j \in DOMAIN calls \ {i} : calls[j].at = "returned" )
        => ~isScanning' ]_vars

\* C30: every entry of $scanCache under key p is the tree of a scan of p that
\* was not cancelled.
C30_CacheHoldsCompletedScanOfKey ==
  \A p \in UIPaths :
    scanCache[p] # << >> => scanCache[p][1].path = p /\ ~scanCache[p][1].partial

\* The calls whose scan_directory_streaming_command was invoked and has not
\* returned.
CommandsInFlight == { i \in DOMAIN calls : calls[i].at = "command" }

\* C31: at most one scan command is in flight at any time.
C31_OneScanCommandInFlight == Cardinality(CommandsInFlight) <= 1

\* startScan is called in this step.
ScanStarted == ~isScanning /\ isScanning'

\* C32: a scan starts with an empty registry and children index and no root.
C32_ScanStartsWithFreshState ==
  [][ ScanStarted =>
        /\ nodeRegistry' = << >>
        /\ childrenMap' = << >>
        /\ rootPath' = "null" ]_vars

\* emit_batch() runs in this step.
Emits == unemitted' = 0 /\ (unemitted > 0 \/ channel' < channel)

\* C33: the batch holds every signal received since the last emission, once and
\* in the order received; an emission hands over exactly these and leaves the
\* batch empty; and once the stream has ended and the channel is drained, a
\* remaining batch is emitted.
C33_BatchesConcatenateToStream ==
  /\ [](batch = Descending(unemitted) /\ Len(batch) = batchLen)
  /\ [][ Emits =>
           /\ emittedBatch' = Descending(unemitted + (IF channel' < channel THEN 1 ELSE 0))
           /\ batch' = << >> ]_vars
  /\ ((toSend = 0 /\ channel = 0) ~> (batch = << >>))

\* The stream of three signals has ended; the first was emitted by an earlier
\* flush and the sleep has flushed the remaining two, in the order received.
C33_Witness ==
  /\ toSend = 0 /\ channel = 0
  /\ batch = << >> /\ unemitted = 0
  /\ emittedBatch = << 1, 0 >>
  /\ lastBatch = 2
  /\ sleepLeft = FlushIntervalMs

(***************************************************************************)
(* Further claims about the scan session                                   *)
(***************************************************************************)
\* The nodes of the session's registry listed under directory p.
RegisteredChildren(p) ==
  { k \in registry : Len(k) = Len(p) + 1 /\ SubSeq(k, 1, Len(p)) = p }

\* The size the output tree gives the registry node p: a file's disk usage, a
\* directory's sum over its registered children.
RECURSIVE OutputSize(_)
OutputSize(p) ==
  IF ~IsDir(p) THEN DiskUsage(p)
  ELSE SumOver(RegisteredChildren(p), [k \in RegisteredChildren(p) |-> OutputSize(k)])

\* C34: the complete event of a completed scan carries the number of nodes in
\* the registry and the size of the root of the output tree.
C34_CompleteTotalsAgree ==
  status = "completed" =>
    /\ lastEvent.type = "complete"
    /\ lastEvent.files_scanned = Cardinality(registry)
    /\ lastEvent.total_size = OutputSize(RootPath)

\* C35: $isScanning is never true while $scanError holds a message.
C35_NeverScanningWithError == ~(isScanning /\ scanError # "null")

\* A scan failed, the user started another, and startScan cleared the error.
C35_Witness ==
  /\ Len(calls) = 2
  /\ calls[1].reported = "failed"
  /\ calls[2].at # "returned"
  /\ isScanning /\ scanError = "null"

\* C36: $canResumeScan is true only while $scanError holds a resumable error
\* message.
C36_ResumeOnlyWithResumableError ==
  canResumeScan => (scanError # "null" /\ isResumableError(scanError))

(***************************************************************************)
(* Further claims about the incremental registry                           *)
(***************************************************************************)
\* addNodeIncremental runs in this step for a path already registered, with the
\* node it was registered with.
DeliveredAgain == signals' = signals + 1 /\ nodeRegistry' = nodeRegistry

\* The aggregate size buildTreeFromRegistry gives each registered path.
AggregateSizes ==
  [p \in DOMAIN nodeRegistry |-> buildTreeFromRegistry(p)[1].size]

\* C37: a node_discovered signal delivered a second time leaves every path
\* listed once under its parent and every aggregate size as it was.
C37_SecondDeliveryChangesNothing ==
  [][ (DeliveredAgain /\ ListedOnce) =>
        (ListedOnce' /\ AggregateSizes' = AggregateSizes) ]_vars

\* C38: at most one animation-frame callback of scheduleTreeUpdate is queued.
C38_OneRebuildScheduled == frames <= 1

====
